---------------------------- MODULE Spec2Model ----------------------------
(***************************************************************************)
(* SmartBite: the order lifecycle, the restaurant rating aggregation, the *)
(* catalog (restaurants and menu items) with its form validation, and the  *)
(* accounts (authService and the AuthContext of a browser).                *)
(*                                                                         *)
(* The store is the relational schema of the migration (tables, CHECK      *)
(* constraints and row-level policies).  Every user runs one browser       *)
(* client holding the OrderContext state (orders, loading, error).  An     *)
(* asynchronous handler is cut at its awaits: the step that issues a       *)
(* remote request also lets the store execute it (the synchronous prefix   *)
(* of a handler only writes the client's own flags), and a later step      *)
(* resumes the handler with the response.  Calls of different clients, and *)
(* the update call and the list call of one client, interleave freely.     *)
(*                                                                         *)
(* auth.uid() of a request is the user of the client that issues it.       *)
(***************************************************************************)
EXTENDS Integers, Sequences, FiniteSets, TLC

\* ------------------------------------------------------------------ bounds
MaxOrders == 2
MaxReviews == 2
MaxCalls == 3
MaxItems == 2

\* ------------------------------------------------------------- the schema
Users == {"u1", "u2", "u3", "u4"}
RestaurantIds == {"r1", "r2"}
OrderIds == 1..MaxOrders
NoUser == "null"
NoRow == [id |-> 0]
MenuIds == 1..MaxItems
NoItem == [id |-> 0]
NoItems == [i \in MenuIds |-> NoItem]

\* users.role of the registered users
UserRole == [u \in Users |->
               CASE u = "u1" -> "owner" [] u = "u2" -> "driver"
                 [] u = "u3" -> "customer" [] OTHER -> "driver"]

\* orders.status CHECK (status IN (...))
OrderStatus == {"pending", "confirmed", "preparing", "ready",
                "delivering", "delivered", "cancelled"}

VARIABLES
  restaurants,   \* table restaurants: id -> [user_id, rating]
  orders,        \* table orders: id -> row, NoRow while the id is unused
  reviews,       \* table reviews, in insertion order
  cache,         \* OrderContext.orders of each client: id -> cached row or NoRow
  loading,       \* OrderContext.loading of each client
  error,         \* OrderContext.error of each client: <<>> is null
  upd,           \* each client's updateOrderStatus / acceptDelivery call
  lst,           \* each client's createOrder / get...Orders call
  rev,           \* each client's reviewService.createReview call
  calls,         \* number of handler calls started so far
  menu_items,    \* table menu_items: id -> row, NoItem while the id is unused
  rctx,          \* RestaurantContext state of each client
  mctx,          \* MenuContext state of each client
  rop,           \* each client's RestaurantContext call
  mop,           \* each client's MenuContext call
  users,         \* table users: id -> row, NoAccount while the id is unused
  session,       \* localStorage item 'smartbite_user' of each browser
  auth,          \* AuthContext state of each browser: user, loading
  aop            \* each browser's startup effect and AuthContext calls

vars == <<restaurants, orders, reviews, cache, loading, error, upd, lst, rev, calls,
          menu_items, rctx, mctx, rop, mop, users, session, auth, aop>>

\* the catalog: the menu table and the two catalog containers of every client
catalog == <<menu_items, rctx, mctx, rop, mop>>

\* the order side: the order and review tables and the OrderContext of every client
orderSide == <<orders, reviews, cache, loading, error, upd, lst>>

\* the accounts: the user table and the AuthContext of every browser
authSide == <<users, session, auth, aop>>

\* everything but the accounts and the count of calls
appSide == <<restaurants, orders, reviews, cache, loading, error, upd, lst, rev,
             menu_items, rctx, mctx, rop, mop>>

\* --------------------------------------------------------------- numbers
\* A rating is the quotient sum / count of integers: kept exact as a reduced
\* fraction, which names the same number as the floating point quotient.
RECURSIVE Gcd(_, _)
Gcd(a, b) == IF b = 0 THEN a ELSE Gcd(b, a % b)

Quot(n, d) == LET g == Gcd(n, d) IN [num |-> n \div g, den |-> d \div g]

\* restaurants.rating numeric DEFAULT 0
DefaultRating == [num |-> 0, den |-> 1]

NaN == -1

\* parseFloat / parseInt of a caller-supplied field: the number a numeric text
\* denotes, NaN for anything else (sent to the store as null)
ParseNumber(s) ==
  CASE s = "0" -> 0 [] s = "2" -> 2 [] s = "3" -> 3 [] s = "4" -> 4 [] s = "5" -> 5
    [] s = "6" -> 6 [] s = "13" -> 13 [] s = "15" -> 15 [] s = "16" -> 16
    [] OTHER -> NaN

\* -------------------------------------------------------- catalog rows
\* a row of table restaurants: rating and is_active take their defaults on insert
RestaurantRow(uid, name, fee, min) ==
  [user_id |-> uid, rating |-> DefaultRating, name |-> name,
   delivery_fee |-> fee, min_order |-> min, is_active |-> TRUE]

\* the place of a restaurant id that no row has yet
NoRestaurant ==
  [user_id |-> NoUser, rating |-> DefaultRating, name |-> "",
   delivery_fee |-> 0, min_order |-> 0, is_active |-> FALSE]

NoRestaurants == [r \in RestaurantIds |-> NoRestaurant]

\* a row of table menu_items
MenuRow(id, rid, name, price, available) ==
  [id |-> id, restaurant_id |-> rid, name |-> name, price |-> price,
   available |-> available]

\* ------------------------------------------------------ row-level policies
RestaurantOwner(rid) == IF rid \in RestaurantIds THEN restaurants[rid].user_id ELSE NoUser

\* a select policy that shows every order to every user
OrdersSelectUsingAnyone(uid, row) == uid \in Users

\* policy "Users can view own orders" (SELECT USING)
OrdersSelectUsing(uid, row) ==
  \/ uid = row.customer_id
  \/ uid = row.driver_id
  \/ uid = RestaurantOwner(row.restaurant_id)

\* policy "Customers can create orders" (INSERT WITH CHECK)
OrdersInsertCheck(uid, row) == uid = row.customer_id

\* the update policy's USING if it also admitted the order's customer
OrdersUpdateUsingOrCustomer(uid, row) ==
  \/ uid = row.driver_id
  \/ uid = RestaurantOwner(row.restaurant_id)
  \/ uid = row.customer_id

\* the update policy's USING if it hid the orders that are delivered or cancelled
OrdersUpdateUsingOpenOrders(uid, row) ==
  /\ row.status \notin {"delivered", "cancelled"}
  /\ \/ uid = row.driver_id
     \/ uid = RestaurantOwner(row.restaurant_id)

\* policy "Restaurant owners and drivers can update orders": USING on the old row
OrdersUpdateUsing(uid, row) ==
  \/ uid = row.driver_id
  \/ uid = RestaurantOwner(row.restaurant_id)

\* the same policy's WITH CHECK on the new row
OrdersUpdateCheck(uid, row) ==
  \/ uid = row.driver_id
  \/ uid = RestaurantOwner(row.restaurant_id)

\* orders.status CHECK constraint
OrdersStatusCheck(row) == row.status \in OrderStatus

\* policy "Restaurant owners can update own restaurants" (USING and WITH CHECK)
RestaurantsUpdateUsing(uid, rid) == uid = restaurants[rid].user_id

\* the review policy without its test of the order's status
ReviewsInsertCheckAnyStatus(uid, row) ==
  /\ uid = row.customer_id
  /\ \E id \in OrderIds :
       /\ orders[id] # NoRow
       /\ id = row.order_id
       /\ orders[id].customer_id = uid

\* policy "Customers can create reviews for own orders" (INSERT WITH CHECK)
ReviewsInsertCheck(uid, row) ==
  /\ uid = row.customer_id
  /\ \E id \in OrderIds :
       /\ orders[id] # NoRow
       /\ id = row.order_id
       /\ orders[id].customer_id = uid
       /\ orders[id].status = "delivered"

\* the constraints of reviews with a UNIQUE (order_id) added to them, which the
\* schema does not declare
ReviewsConstraintsOnePerOrder(row) ==
  /\ row.rating # NaN
  /\ row.rating >= 1 /\ row.rating <= 5
  /\ row.restaurant_id \in RestaurantIds
  /\ restaurants[row.restaurant_id] # NoRestaurant
  /\ row.customer_id \in Users
  /\ row.order_id \in OrderIds /\ orders[row.order_id] # NoRow
  /\ \A i \in 1..Len(reviews) : reviews[i].order_id # row.order_id

\* reviews: rating integer NOT NULL CHECK (rating >= 1 AND rating <= 5), and the
\* foreign keys of restaurant_id, customer_id and order_id
ReviewsConstraints(row) ==
  /\ row.rating # NaN
  /\ row.rating >= 1 /\ row.rating <= 5
  /\ row.restaurant_id \in RestaurantIds
  /\ restaurants[row.restaurant_id] # NoRestaurant
  /\ row.customer_id \in Users
  /\ row.order_id \in OrderIds /\ orders[row.order_id] # NoRow


\* ------------------------------------------------------------ table rows
OrderRow(id, customer, restaurant, driver, status, subtotal, fee, total) ==
  [id |-> id, customer_id |-> customer, restaurant_id |-> restaurant,
   driver_id |-> driver, status |-> status,
   subtotal |-> subtotal, delivery_fee |-> fee, total |-> total]

ReviewRow(restaurant, customer, order, rating) ==
  [restaurant_id |-> restaurant, customer_id |-> customer,
   order_id |-> order, rating |-> rating]

\* -------------------------------------------------- reviewService (rating)
RatingInputs == {"0", "3", "5", "five"}

ReviewInputs ==
  [restaurant_id : RestaurantIds, customer_id : {"u1", "u2"},
   order_id : OrderIds, rating : RatingInputs]

\* a reviewService call, createReview or updateRestaurantRating on its own: pc is
\* the await it stands at ("called": before the select, "done": returned after
\* the rating write, "nowrite": returned without a rating write, "raised": threw),
\* rid its restaurant, avg the avgRating it computed; alone records that no other
\* createReview for rid was in flight during the call
IdleRev == [pc |-> "idle", call |-> "null", rid |-> "null", avg |-> DefaultRating,
            alone |-> TRUE]

RevReturned(c) == rev[c].pc \in {"idle", "done", "nowrite", "raised"}

RevActive(c) == rev[c].call = "createReview" /\ rev[c].pc \in {"inserted", "fetched"}

\* .from('reviews').select('rating').eq('restaurant_id', restaurantId)
RECURSIVE SelectRatings(_, _)
SelectRatings(rows, rid) ==
  IF rows = <<>> THEN <<>>
  ELSE LET rest == SelectRatings(Tail(rows), rid)
       IN IF Head(rows).restaurant_id = rid THEN <<Head(rows).rating>> \o rest ELSE rest

\* reviews.reduce((sum, r) => sum + r.rating, 0)
RECURSIVE ReduceSum(_)
ReduceSum(rs) == IF rs = <<>> THEN 0 ELSE Head(rs) + ReduceSum(Tail(rs))

\* a mean taken over one element too many
AvgRatingOffByOne(rs) == Quot(ReduceSum(rs), Len(rs) + 1)

\* avgRating = reduce(...) / reviews.length
AvgRating(rs) == Quot(ReduceSum(rs), Len(rs))

\* the row createReview inserts
ReviewInsertRow(d) ==
  ReviewRow(d.restaurant_id, d.customer_id, d.order_id, ParseNumber(d.rating))

\* createReview up to its first await: the insert, run by the store.
\* rejected: the error is thrown; accepted: updateRestaurantRating comes next
createReviewInsert(c, d) ==
  LET row == ReviewInsertRow(d)
      others == {x \in Users \ {c} : RevActive(x) /\ rev[x].rid = d.restaurant_id}
  IN /\ RevReturned(c)
     /\ Len(reviews) < MaxReviews
     /\ IF ReviewsInsertCheck(c, row) /\ ReviewsConstraints(row)
        THEN /\ reviews' = Append(reviews, row)
             /\ rev' = [x \in Users |->
                          IF x = c THEN [pc |-> "inserted", call |-> "createReview",
                                         rid |-> d.restaurant_id,
                                         avg |-> DefaultRating, alone |-> others = {}]
                          ELSE IF x \in others THEN [rev[x] EXCEPT !.alone = FALSE]
                          ELSE rev[x]]
        ELSE /\ reviews' = reviews
             /\ rev' = [rev EXCEPT ![c] = [IdleRev EXCEPT !.pc = "raised"]]
     /\ UNCHANGED <<restaurants, orders, cache, loading, error, upd, lst>>

\* updateRestaurantRating(restaurantId) called on its own, up to its select
updateRestaurantRating(c, rid) ==
  /\ RevReturned(c)
  /\ rev' = [rev EXCEPT ![c] = [pc |-> "called", call |-> "updateRestaurantRating",
                                rid |-> rid, avg |-> DefaultRating, alone |-> TRUE]]
  /\ UNCHANGED <<restaurants, orders, reviews, cache, loading, error, upd, lst>>

\* updateRestaurantRating with a select whose failure is thrown to createReview
updateRestaurantRatingFetchThrowing(c) ==
  /\ rev[c].pc \in {"inserted", "called"}
  /\ \/ LET rs == SelectRatings(reviews, rev[c].rid)
        IN rev' = [rev EXCEPT ![c].pc = IF Len(rs) > 0 THEN "fetched" ELSE "nowrite",
                              ![c].avg = IF Len(rs) > 0 THEN AvgRating(rs) ELSE DefaultRating]
     \/ rev' = [rev EXCEPT ![c].pc = "raised"]
  /\ UNCHANGED <<restaurants, orders, reviews, cache, loading, error, upd, lst>>

\* updateRestaurantRating: the select of the ratings and the mean of a non-empty
\* result; no write follows an empty result, nor a failed select (reviews is null)
updateRestaurantRatingFetch(c) ==
  /\ rev[c].pc \in {"inserted", "called"}
  /\ \/ LET rs == SelectRatings(reviews, rev[c].rid)
        IN rev' = [rev EXCEPT ![c].pc = IF Len(rs) > 0 THEN "fetched" ELSE "nowrite",
                              ![c].avg = IF Len(rs) > 0 THEN AvgRating(rs) ELSE DefaultRating]
     \/ rev' = [rev EXCEPT ![c].pc = "nowrite"]
  /\ UNCHANGED <<restaurants, orders, reviews, cache, loading, error, upd, lst>>

\* updateRestaurantRating: .update({ rating: avgRating }).eq('id', restaurantId), which
\* the store applies to the rows the requester's update policy shows; the response's
\* error is not looked at
updateRestaurantRatingWrite(c) ==
  /\ rev[c].pc = "fetched"
  /\ restaurants' = IF RestaurantsUpdateUsing(c, rev[c].rid)
                    THEN [restaurants EXCEPT ![rev[c].rid].rating = rev[c].avg]
                    ELSE restaurants
  /\ rev' = [rev EXCEPT ![c].pc = "done", ![c].avg = DefaultRating]
  /\ UNCHANGED <<orders, reviews, cache, loading, error, upd, lst>>

\* ------------------------------------------------------------ orderService
StatusInputs == OrderStatus \cup {"bogus"}
DriverInputs == Users \cup {NoUser}

\* what the store answers to a write
Ok == "ok"
StoreError == "store error"

\* an update that writes driver_id whether or not a driverId was given
UpdateOrderRowAlwaysDriver(row, status, driverId) ==
  [row EXCEPT !.status = status, !.driver_id = driverId]

\* updateOrderStatus builds { status } and adds driver_id only for a driverId
UpdateOrderRow(row, status, driverId) ==
  IF driverId # NoUser
  THEN [row EXCEPT !.status = status, !.driver_id = driverId]
  ELSE [row EXCEPT !.status = status]

\* .from('orders').update(updates).eq('id', orderId) asked by uid: a row the update
\* policy hides is skipped without an error; a new row that breaks the policy's
\* WITH CHECK or the status CHECK is refused with an error
OrdersUpdateResult(uid, id, status, driverId) ==
  IF orders[id] = NoRow \/ ~OrdersUpdateUsing(uid, orders[id]) THEN Ok
  ELSE LET new == UpdateOrderRow(orders[id], status, driverId)
       IN IF OrdersStatusCheck(new) /\ OrdersUpdateCheck(uid, new) THEN Ok ELSE StoreError

OrdersAfterUpdate(uid, id, status, driverId) ==
  IF /\ orders[id] # NoRow
     /\ OrdersUpdateUsing(uid, orders[id])
     /\ OrdersUpdateResult(uid, id, status, driverId) = Ok
  THEN [orders EXCEPT ![id] = UpdateOrderRow(orders[id], status, driverId)]
  ELSE orders

\* a select without its .eq(column, value): all the rows the policy shows
SelectOrdersVisible(uid, column, value) ==
  [id \in OrderIds |->
     IF orders[id] # NoRow /\ OrdersSelectUsing(uid, orders[id])
     THEN orders[id] ELSE NoRow]

\* .from('orders').select(...).eq(column, value) asked by uid: the rows of the
\* column's value that the select policy shows
SelectOrders(uid, column, value) ==
  [id \in OrderIds |->
     IF /\ orders[id] # NoRow
        /\ OrdersSelectUsing(uid, orders[id])
        /\ orders[id][column] = value
     THEN orders[id] ELSE NoRow]

\* ------------------------------------------------------------- OrderContext
NoOrders == [id \in OrderIds |-> NoRow]

\* an updateOrderStatus / acceptDelivery call: its arguments and the store's
\* response.  Three fields record its history: was, the status the order had when
\* the store ran the request; peers, the clients whose acceptDelivery of the same
\* order was in flight during it; returned, those of peers whose acceptDelivery
\* has returned without an error
IdleUpd == [pc |-> "idle", kind |-> "null", id |-> 0, status |-> "null",
            driver |-> NoUser, res |-> "null", was |-> "null",
            peers |-> {}, returned |-> {}]

StatusOf(id) == IF orders[id] = NoRow THEN "null" ELSE orders[id].status

\* what a caller of createOrder may put in orderData for the columns the handler
\* fills in itself; "" is a field left out
NoExtras == [status |-> "", customer_id |-> "", driver_id |-> ""]

\* a createOrder / getCustomerOrders / getAgentOrders / getRestaurantOrders call;
\* extras records the status, customer_id and driver_id createOrder was called with
IdleLst == [pc |-> "idle", kind |-> "null", res |-> "null", snap |-> NoOrders,
            extras |-> NoExtras]

\* the ways a select can be answered: with the rows, or with an error
FetchResults == {Ok, StoreError}

\* a patch that does not compare order.id with orderId
PatchAllOrders(list, id, status, driverId) ==
  [i \in OrderIds |->
     IF list[i] # NoRow THEN UpdateOrderRow(list[i], status, driverId) ELSE list[i]]

\* setOrders(prev => prev.map(order => order.id === orderId ? {...patch} : order))
PatchOrders(list, id, status, driverId) ==
  [i \in OrderIds |->
     IF list[i] # NoRow /\ list[i].id = id
     THEN UpdateOrderRow(list[i], status, driverId)
     ELSE list[i]]

\* updateOrderStatus up to the response of orderService.updateOrderStatus
updateOrderStatus(c, id, status, driverId) ==
  /\ upd[c].pc = "idle"
  /\ error' = [error EXCEPT ![c] = <<>>]
  /\ orders' = OrdersAfterUpdate(c, id, status, driverId)
  /\ upd' = [upd EXCEPT ![c] = [pc |-> "replied", kind |-> "update", id |-> id,
                                status |-> status, driver |-> driverId,
                                res |-> OrdersUpdateResult(c, id, status, driverId),
                                was |-> StatusOf(id), peers |-> {}, returned |-> {}]]
  /\ UNCHANGED <<restaurants, reviews, cache, loading, lst, rev>>

\* updateOrderStatus from the response on: the patch of the cached list, or the catch
updateOrderStatusResume(c) ==
  /\ upd[c].pc = "replied" /\ upd[c].kind = "update"
  /\ IF upd[c].res = Ok
     THEN /\ cache' = [cache EXCEPT ![c] = PatchOrders(cache[c], upd[c].id,
                                                       upd[c].status, upd[c].driver)]
          /\ error' = error
     ELSE /\ cache' = cache
          /\ error' = [error EXCEPT ![c] = <<upd[c].res>>]
  /\ upd' = [upd EXCEPT ![c] = IdleUpd]
  /\ UNCHANGED <<restaurants, orders, reviews, loading, lst, rev>>

AcceptInFlight(x, id) ==
  upd[x].pc = "replied" /\ upd[x].kind = "accept" /\ upd[x].id = id

\* acceptDelivery: orderService.updateOrderStatus(orderId, 'delivering', user.id)
acceptDelivery(c, id) ==
  LET others == {x \in Users \ {c} : AcceptInFlight(x, id)}
  IN /\ upd[c].pc = "idle"
     /\ error' = [error EXCEPT ![c] = <<>>]
     /\ orders' = OrdersAfterUpdate(c, id, "delivering", c)
     /\ upd' = [x \in Users |->
                  IF x = c
                  THEN [pc |-> "replied", kind |-> "accept", id |-> id,
                        status |-> "delivering", driver |-> c,
                        res |-> OrdersUpdateResult(c, id, "delivering", c),
                        was |-> StatusOf(id), peers |-> others, returned |-> {}]
                  ELSE IF x \in others THEN [upd[x] EXCEPT !.peers = @ \cup {c}]
                  ELSE upd[x]]
     /\ UNCHANGED <<restaurants, reviews, cache, loading, lst, rev>>

\* acceptDelivery from the response on
acceptDeliveryResume(c) ==
  /\ upd[c].pc = "replied" /\ upd[c].kind = "accept"
  /\ IF upd[c].res = Ok
     THEN /\ cache' = [cache EXCEPT ![c] = PatchOrders(cache[c], upd[c].id,
                                                       "delivering", c)]
          /\ error' = error
     ELSE /\ cache' = cache
          /\ error' = [error EXCEPT ![c] = <<upd[c].res>>]
  /\ upd' = [x \in Users |->
               IF x = c THEN IdleUpd
               ELSE IF c \in upd[x].peers /\ upd[c].res = Ok
               THEN [upd[x] EXCEPT !.returned = @ \cup {c}]
               ELSE upd[x]]
  /\ UNCHANGED <<restaurants, orders, reviews, loading, lst, rev>>

\* getCustomerOrders up to the response of orderService.getMyOrders(user.id)
getCustomerOrders(c) ==
  /\ lst[c].pc = "idle"
  /\ loading' = [loading EXCEPT ![c] = TRUE]
  /\ error' = [error EXCEPT ![c] = <<>>]
  /\ \E r \in FetchResults :
       lst' = [lst EXCEPT ![c] = [pc |-> "fetching", kind |-> "customer", res |-> r,
                                  snap |-> IF r = Ok THEN SelectOrders(c, "customer_id", c)
                                           ELSE NoOrders,
                                  extras |-> NoExtras]]
  /\ UNCHANGED <<restaurants, orders, reviews, cache, upd, rev>>

\* getAgentOrders up to the response of orderService.getDriverOrders(user.id)
getAgentOrders(c) ==
  /\ lst[c].pc = "idle"
  /\ loading' = [loading EXCEPT ![c] = TRUE]
  /\ error' = [error EXCEPT ![c] = <<>>]
  /\ \E r \in FetchResults :
       lst' = [lst EXCEPT ![c] = [pc |-> "fetching", kind |-> "agent", res |-> r,
                                  snap |-> IF r = Ok THEN SelectOrders(c, "driver_id", c)
                                           ELSE NoOrders,
                                  extras |-> NoExtras]]
  /\ UNCHANGED <<restaurants, orders, reviews, cache, upd, rev>>

\* getRestaurantOrders up to its await: it awaits the bound service function, not a
\* call of it, and goes on with orderData = []
getRestaurantOrders(c) ==
  /\ lst[c].pc = "idle"
  /\ loading' = [loading EXCEPT ![c] = TRUE]
  /\ error' = [error EXCEPT ![c] = <<>>]
  /\ lst' = [lst EXCEPT ![c] = [pc |-> "fetching", kind |-> "restaurant", res |-> Ok,
                                snap |-> NoOrders, extras |-> NoExtras]]
  /\ UNCHANGED <<restaurants, orders, reviews, cache, upd, rev>>

\* a return of get...Orders whose catch leaves the cached list as it was
getOrdersResumeKeepingList(c) ==
  /\ lst[c].pc = "fetching"
  /\ IF lst[c].res = Ok
     THEN /\ cache' = [cache EXCEPT ![c] = lst[c].snap]
          /\ error' = error
     ELSE /\ cache' = cache
          /\ error' = [error EXCEPT ![c] = <<"Failed to load orders">>]
  /\ loading' = [loading EXCEPT ![c] = FALSE]
  /\ lst' = [lst EXCEPT ![c] = IdleLst]
  /\ UNCHANGED <<restaurants, orders, reviews, upd, rev>>

\* get...Orders from the response on: setOrders(orderData), or in the catch
\* setError('Failed to load orders') and setOrders([]); finally setLoading(false);
\* a createOrder that awaited it then returns the new order's id
getOrdersResume(c) ==
  /\ lst[c].pc = "fetching"
  /\ IF lst[c].res = Ok
     THEN /\ cache' = [cache EXCEPT ![c] = lst[c].snap]
          /\ error' = error
     ELSE /\ cache' = [cache EXCEPT ![c] = NoOrders]
          /\ error' = [error EXCEPT ![c] = <<"Failed to load orders">>]
  /\ loading' = [loading EXCEPT ![c] = FALSE]
  /\ lst' = [lst EXCEPT ![c] = IdleLst]
  /\ UNCHANGED <<restaurants, orders, reviews, upd, rev>>

\* caller-supplied order data
OrderInputs ==
  [restaurant_id : {"r1", ""}, items : {0, 2}, delivery_address : {"12 Main St", " "},
   customer_phone : {"555"}, subtotal : {"13"}, delivery_fee : {"2"},
   total : {"15", "16", ""},
   status : {"", "delivered"}, customer_id : {"", "u1"}, driver_id : {"", "u2"}]

\* the status, customer_id and driver_id of orderData
Extras(d) == [status |-> d.status, customer_id |-> d.customer_id, driver_id |-> d.driver_id]

\* String.prototype.trim on the texts used here
Trim(t) == IF t = " " THEN "" ELSE t

\* createOrder's validation: the messages pushed to errors
OrderErrors(d) ==
  (IF d.restaurant_id = "" THEN <<"Restaurant is required">> ELSE <<>>)
  \o (IF d.items = 0 THEN <<"Order items are required">> ELSE <<>>)
  \o (IF Trim(d.delivery_address) = "" THEN <<"Delivery address is required">> ELSE <<>>)
  \o (IF Trim(d.customer_phone) = "" THEN <<"Phone number is required">> ELSE <<>>)

\* an insert that took status, customer_id and driver_id from orderData when given
OrderInsertRowFromData(id, uid, d) ==
  OrderRow(id, IF d.customer_id = "" THEN uid ELSE d.customer_id, d.restaurant_id,
           IF d.driver_id = "" THEN NoUser ELSE d.driver_id,
           IF d.status = "" THEN "pending" ELSE d.status,
           ParseNumber(d.subtotal), ParseNumber(d.delivery_fee), ParseNumber(d.total))

\* the row orderService.createOrder inserts for user uid
OrderInsertRow(id, uid, d) ==
  OrderRow(id, uid, d.restaurant_id, NoUser, "pending",
           ParseNumber(d.subtotal), ParseNumber(d.delivery_fee), ParseNumber(d.total))

\* orders: the NOT NULL amounts and the foreign key of restaurant_id
OrdersConstraints(row) ==
  /\ row.subtotal # NaN /\ row.delivery_fee # NaN /\ row.total # NaN
  /\ row.restaurant_id \in RestaurantIds
  /\ restaurants[row.restaurant_id] # NoRestaurant

FreeOrderIds == {id \in OrderIds : orders[id] = NoRow}

\* createOrder up to the response of orderService.createOrder: a failed validation
\* throws before any request; else the store runs the insert
createOrder(c, d) ==
  /\ lst[c].pc = "idle"
  /\ FreeOrderIds # {}
  /\ IF OrderErrors(d) # <<>>
     THEN /\ error' = [error EXCEPT ![c] = OrderErrors(d)]
          /\ loading' = [loading EXCEPT ![c] = FALSE]
          /\ UNCHANGED <<orders, lst>>
     ELSE LET id == CHOOSE i \in FreeOrderIds : \A j \in FreeOrderIds : i <= j
              row == OrderInsertRow(id, c, d)
              ok == OrdersInsertCheck(c, row) /\ OrdersConstraints(row)
          IN /\ error' = [error EXCEPT ![c] = <<>>]
             /\ loading' = [loading EXCEPT ![c] = TRUE]
             /\ orders' = IF ok THEN [orders EXCEPT ![id] = row] ELSE orders
             /\ lst' = [lst EXCEPT ![c] = [pc |-> "inserted", kind |-> "create",
                                           res |-> IF ok THEN Ok ELSE StoreError,
                                           snap |-> NoOrders, extras |-> Extras(d)]]
  /\ UNCHANGED <<restaurants, reviews, cache, upd, rev>>

\* createOrder from the insert's response on: the catch, or for a customer the
\* awaited getCustomerOrders (up to its response), or the return
createOrderResume(c) ==
  /\ lst[c].pc = "inserted"
  /\ IF lst[c].res # Ok
     THEN /\ error' = [error EXCEPT ![c] = <<lst[c].res>>]
          /\ loading' = [loading EXCEPT ![c] = FALSE]
          /\ lst' = [lst EXCEPT ![c] = IdleLst]
     ELSE IF UserRole[c] = "customer"
     THEN /\ error' = [error EXCEPT ![c] = <<>>]
          /\ loading' = [loading EXCEPT ![c] = TRUE]
          /\ \E r \in FetchResults :
               lst' = [lst EXCEPT ![c] = [pc |-> "fetching", kind |-> "create", res |-> r,
                                          snap |-> IF r = Ok
                                                   THEN SelectOrders(c, "customer_id", c)
                                                   ELSE NoOrders,
                                          extras |-> NoExtras]]
     ELSE /\ error' = error
          /\ loading' = [loading EXCEPT ![c] = FALSE]
          /\ lst' = [lst EXCEPT ![c] = IdleLst]
  /\ UNCHANGED <<restaurants, orders, reviews, cache, upd, rev>>

\* ------------------------------------------------- caller-supplied values
\* a JavaScript value of a form field: undefined, a string, a number, a boolean,
\* an array (of n texts)
Undefined == [t |-> "undefined", s |-> "", n |-> 0]
Str(x) == [t |-> "string", s |-> x, n |-> 0]
Num(k) == [t |-> "number", s |-> "", n |-> k]
Arr(len) == [t |-> "array", s |-> "", n |-> len]
JsTrue == [t |-> "boolean", s |-> "", n |-> 1]
JsFalse == [t |-> "boolean", s |-> "", n |-> 0]

\* !v
Falsy(v) ==
  CASE v.t = "undefined" -> TRUE
    [] v.t = "string" -> v.s = ""
    [] v.t = "number" -> v.n = 0 \/ v.n = NaN
    [] v.t = "boolean" -> v.n = 0
    [] OTHER -> FALSE

\* the number a numeric text denotes, NaN for any other text
NumericText(x) ==
  CASE x = "0" -> 0 [] x = "500" -> 500 [] x = "2000" -> 2000 [] x = "-5" -> -5
    [] OTHER -> NaN

\* Number(v): a text is trimmed and the empty text is 0
ToNumber(v) ==
  CASE v.t = "number" -> v.n
    [] v.t = "string" -> IF Trim(v.s) = "" THEN 0 ELSE NumericText(v.s)
    [] v.t = "array" -> IF v.n = 0 THEN 0 ELSE NaN
    [] OTHER -> NaN

\* parseFloat(v): reads no number from an empty or blank text
ParseFloat(v) ==
  CASE v.t = "number" -> v.n
    [] v.t = "string" -> NumericText(v.s)
    [] OTHER -> NaN

\* field.replace('_', ' ')
FieldLabel(f) ==
  CASE f = "delivery_time" -> "delivery time" [] f = "delivery_fee" -> "delivery fee"
    [] f = "min_order" -> "min order" [] f = "restaurant_id" -> "restaurant id"
    [] OTHER -> f

\* --------------------------------------------------------- restaurantService
\* policy "Anyone can view active restaurants" (SELECT USING)
RestaurantsSelectUsing(uid, row) == row.is_active \/ row.user_id = uid

\* policy "Restaurant owners can create restaurants" (INSERT WITH CHECK)
RestaurantsInsertCheck(uid, row) == uid = row.user_id

\* policy "Restaurant owners can update own restaurants" (WITH CHECK)
RestaurantsUpdateCheck(uid, row) == uid = row.user_id

\* restaurants: NOT NULL delivery_fee and min_order (NaN is sent as null) and the
\* foreign key of user_id
RestaurantsConstraints(row) ==
  /\ row.delivery_fee # NaN /\ row.min_order # NaN
  /\ row.user_id \in Users

\* the row restaurantService.createRestaurant inserts for user uid
RestaurantInsertRow(uid, d) ==
  RestaurantRow(uid, d.name.s, ParseFloat(d.delivery_fee), ParseFloat(d.min_order))

FreeRestaurantIds == {r \in RestaurantIds : restaurants[r] = NoRestaurant}

\* .select('*').eq('is_active', true) asked by uid
SelectRestaurants(uid) ==
  [r \in RestaurantIds |->
     IF /\ restaurants[r] # NoRestaurant
        /\ RestaurantsSelectUsing(uid, restaurants[r])
        /\ restaurants[r].is_active
     THEN restaurants[r] ELSE NoRestaurant]

\* the restaurants .select('*').eq('user_id', userId) finds for uid
OwnRestaurantIds(uid, userId) ==
  {r \in RestaurantIds : /\ restaurants[r] # NoRestaurant
                         /\ RestaurantsSelectUsing(uid, restaurants[r])
                         /\ restaurants[r].user_id = userId}

NoMine == [id |-> "null", row |-> NoRestaurant]

\* .maybeSingle(): the row, null when there is none, an error when there are several
MaybeSingleResult(uid) ==
  IF Cardinality(OwnRestaurantIds(uid, uid)) > 1 THEN StoreError ELSE Ok

MaybeSingleRow(uid) ==
  IF Cardinality(OwnRestaurantIds(uid, uid)) = 1
  THEN LET r == CHOOSE x \in OwnRestaurantIds(uid, uid) : TRUE
       IN  [id |-> r, row |-> restaurants[r]]
  ELSE NoMine

\* updates of a restaurant: one field of Partial<Restaurant> and its new value
RestaurantUpdates ==
  { [field |-> "rating", value |-> Num(5)],
    [field |-> "user_id", value |-> Str("u2")],
    [field |-> "name", value |-> Str("Nouveau")],
    [field |-> "is_active", value |-> JsFalse] }

ApplyRestaurantUpdate(row, u) ==
  CASE u.field = "rating" -> [row EXCEPT !.rating = [num |-> u.value.n, den |-> 1]]
    [] u.field = "user_id" -> [row EXCEPT !.user_id = u.value.s]
    [] u.field = "name" -> [row EXCEPT !.name = u.value.s]
    [] u.field = "is_active" -> [row EXCEPT !.is_active = ~Falsy(u.value)]
    [] OTHER -> row

\* .from('restaurants').update(updates).eq('id', rid) asked by uid: a row the
\* update policy does not show is not updated and no error is returned
RestaurantsUpdateResult(uid, rid, u) ==
  IF restaurants[rid] = NoRestaurant \/ ~RestaurantsUpdateUsing(uid, rid) THEN Ok
  ELSE IF /\ RestaurantsUpdateCheck(uid, ApplyRestaurantUpdate(restaurants[rid], u))
          /\ RestaurantsConstraints(ApplyRestaurantUpdate(restaurants[rid], u))
       THEN Ok ELSE StoreError

RestaurantsAfterUpdate(uid, rid, u) ==
  IF /\ restaurants[rid] # NoRestaurant
     /\ RestaurantsUpdateUsing(uid, rid)
     /\ RestaurantsUpdateResult(uid, rid, u) = Ok
  THEN [restaurants EXCEPT ![rid] = ApplyRestaurantUpdate(@, u)]
  ELSE restaurants

\* --------------------------------------------------------- RestaurantContext
InitRestaurantContext ==
  [restaurants |-> NoRestaurants, myRestaurant |-> NoMine, loading |-> FALSE,
   error |-> <<>>]

\* restaurantData of createRestaurant
RestaurantRequired ==
  <<"name", "description", "town", "address", "phone", "delivery_time",
    "delivery_fee", "min_order", "categories">>

TextValues == {Undefined, Str(""), Str("Chez")}
NumberValues == {Undefined, Str(""), Str(" "), Str("0"), Str("500"), Str("-5"),
                 Str("abc"), Num(0), Num(500), Num(-5)}
CategoryValues == {Undefined, Arr(0), Arr(1)}

RestaurantInputs ==
  [name : TextValues, description : TextValues, town : TextValues,
   address : TextValues, phone : TextValues, delivery_time : TextValues,
   delivery_fee : NumberValues, min_order : NumberValues, categories : CategoryValues]

\* the required fields the loop finds missing, in the order it looks at them
MissingRestaurantFields(d) ==
  SelectSeq(RestaurantRequired,
            LAMBDA f : Falsy(d[f]) \/ (d[f].t = "array" /\ d[f].n = 0))

\* createRestaurant's validation: the message of the error it throws, <<>> for none
RestaurantError(d) ==
  IF MissingRestaurantFields(d) # <<>>
  THEN <<FieldLabel(Head(MissingRestaurantFields(d))), "is required">>
  ELSE IF ToNumber(d.delivery_fee) = NaN \/ ToNumber(d.delivery_fee) < 0
  THEN <<"Valid delivery fee is required">>
  ELSE IF ToNumber(d.min_order) = NaN \/ ToNumber(d.min_order) < 0
  THEN <<"Valid minimum order amount is required">>
  ELSE <<>>

NoForm == [kind |-> "none"]

\* a RestaurantContext call: its argument (kept after the call), the store's response
\* to its write, and the two list requests it has sent (my: fetchMyRestaurant, all:
\* fetchRestaurants) with what the store read for them
IdleRop ==
  [pc |-> "idle", kind |-> "null", data |-> NoForm, rid |-> "null", res |-> "null",
   my |-> "none", myRes |-> "null", mySnap |-> NoMine,
   all |-> "none", allRes |-> "null", allSnap |-> NoRestaurants]

\* the requests of fetchMyRestaurant and fetchRestaurants leave together
SendBoth(slot, c, r1, r2) ==
  [slot EXCEPT !.pc = "refetching",
               !.my = "sent", !.myRes = IF r1 = Ok THEN MaybeSingleResult(c) ELSE r1,
               !.mySnap = IF r1 = Ok THEN MaybeSingleRow(c) ELSE NoMine,
               !.all = "sent", !.allRes = r2,
               !.allSnap = IF r2 = Ok THEN SelectRestaurants(c) ELSE NoRestaurants]

\* fetchRestaurants up to the awaited response
fetchRestaurants(c) ==
  /\ rop[c].pc = "idle"
  /\ rctx' = [rctx EXCEPT ![c].loading = TRUE, ![c].error = <<>>]
  /\ \E r \in FetchResults :
       rop' = [rop EXCEPT ![c] =
                 [IdleRop EXCEPT !.pc = "refetching", !.kind = "fetchRestaurants",
                                 !.all = "sent", !.allRes = r,
                                 !.allSnap = IF r = Ok THEN SelectRestaurants(c)
                                             ELSE NoRestaurants]]
  /\ UNCHANGED <<restaurants, menu_items, mctx, mop, rev>>
  /\ UNCHANGED orderSide

\* fetchMyRestaurant up to the awaited response
fetchMyRestaurant(c) ==
  /\ rop[c].pc = "idle"
  /\ rctx' = [rctx EXCEPT ![c].error = <<>>]
  /\ \E r \in FetchResults :
       rop' = [rop EXCEPT ![c] =
                 [IdleRop EXCEPT !.pc = "refetching", !.kind = "fetchMyRestaurant",
                                 !.my = "sent",
                                 !.myRes = IF r = Ok THEN MaybeSingleResult(c) ELSE r,
                                 !.mySnap = IF r = Ok THEN MaybeSingleRow(c) ELSE NoMine]]
  /\ UNCHANGED <<restaurants, menu_items, mctx, mop, rev>>
  /\ UNCHANGED orderSide

\* the call of c is over once neither list request is out; createRestaurant and
\* updateRestaurant then run their finally
RopAfter(slot) ==
  IF slot.my = "none" /\ slot.all = "none"
  THEN [IdleRop EXCEPT !.data = slot.data, !.kind = slot.kind, !.rid = slot.rid]
  ELSE slot

WritingKinds == {"createRestaurant", "updateRestaurant"}

\* fetchMyRestaurant after the await
fetchMyRestaurantResume(c) ==
  /\ rop[c].pc = "refetching" /\ rop[c].my = "sent"
  /\ LET slot == [rop[c] EXCEPT !.my = "none", !.myRes = "null", !.mySnap = NoMine]
         over == slot.all = "none" /\ slot.kind \in WritingKinds
     IN  /\ rop' = [rop EXCEPT ![c] = RopAfter(slot)]
         /\ rctx' = [rctx EXCEPT
                       ![c].myRestaurant = IF rop[c].myRes = Ok THEN rop[c].mySnap ELSE NoMine,
                       ![c].error = IF rop[c].myRes = Ok THEN @
                                    ELSE <<"Failed to load restaurant">>,
                       ![c].loading = IF over THEN FALSE ELSE @]
  /\ UNCHANGED <<restaurants, menu_items, mctx, mop, rev>>
  /\ UNCHANGED orderSide

\* fetchRestaurants after the await
fetchRestaurantsResume(c) ==
  /\ rop[c].pc = "refetching" /\ rop[c].all = "sent"
  /\ LET slot == [rop[c] EXCEPT !.all = "none", !.allRes = "null",
                                !.allSnap = NoRestaurants]
     IN  /\ rop' = [rop EXCEPT ![c] = RopAfter(slot)]
         /\ rctx' = [rctx EXCEPT
                       ![c].restaurants = IF rop[c].allRes = Ok THEN rop[c].allSnap
                                          ELSE NoRestaurants,
                       ![c].error = IF rop[c].allRes = Ok THEN @
                                    ELSE <<"Failed to load restaurants">>,
                       ![c].loading = FALSE]
  /\ UNCHANGED <<restaurants, menu_items, mctx, mop, rev>>
  /\ UNCHANGED orderSide

\* createRestaurant up to the response of restaurantService.createRestaurant: a
\* failed validation throws before any request (catch: setError, rethrow; finally:
\* setLoading(false)); else the store runs the insert
createRestaurant(c, d) ==
  /\ rop[c].pc = "idle"
  /\ IF RestaurantError(d) # <<>>
     THEN /\ rctx' = [rctx EXCEPT ![c].loading = FALSE, ![c].error = RestaurantError(d)]
          /\ rop' = [rop EXCEPT ![c] = [IdleRop EXCEPT !.kind = "createRestaurant",
                                                       !.data = d]]
          /\ restaurants' = restaurants
     ELSE /\ FreeRestaurantIds # {}
          /\ rctx' = [rctx EXCEPT ![c].loading = TRUE, ![c].error = <<>>]
          /\ LET rid == CHOOSE r \in FreeRestaurantIds :
                          \A x \in FreeRestaurantIds : r = "r1" \/ x # "r1"
                 row == RestaurantInsertRow(c, d)
                 ok  == RestaurantsInsertCheck(c, row) /\ RestaurantsConstraints(row)
             IN  /\ restaurants' = IF ok THEN [restaurants EXCEPT ![rid] = row]
                                   ELSE restaurants
                 /\ rop' = [rop EXCEPT ![c] =
                              [IdleRop EXCEPT !.pc = "written", !.kind = "createRestaurant",
                                              !.data = d, !.rid = rid,
                                              !.res = IF ok THEN Ok ELSE StoreError]]
  /\ UNCHANGED <<menu_items, mctx, mop, rev>>
  /\ UNCHANGED orderSide

\* updateRestaurant up to the response of restaurantService.updateRestaurant
updateRestaurant(c, rid, u) ==
  /\ rop[c].pc = "idle"
  /\ rctx' = [rctx EXCEPT ![c].loading = TRUE, ![c].error = <<>>]
  /\ restaurants' = RestaurantsAfterUpdate(c, rid, u)
  /\ rop' = [rop EXCEPT ![c] =
               [IdleRop EXCEPT !.pc = "written", !.kind = "updateRestaurant",
                               !.data = u, !.rid = rid,
                               !.res = RestaurantsUpdateResult(c, rid, u)]]
  /\ UNCHANGED <<menu_items, mctx, mop, rev>>
  /\ UNCHANGED orderSide

\* createRestaurant / updateRestaurant after the write's response: an error is
\* recorded and rethrown; else Promise.all([fetchMyRestaurant(), fetchRestaurants()])
\* sends both requests, which the store answers without error (maybeSingle apart)
restaurantWriteResume(c) ==
  /\ rop[c].pc = "written"
  /\ IF rop[c].res # Ok
     THEN /\ rctx' = [rctx EXCEPT ![c].loading = FALSE, ![c].error = <<rop[c].res>>]
          /\ rop' = [rop EXCEPT ![c] = [IdleRop EXCEPT !.data = rop[c].data,
                                                       !.kind = rop[c].kind,
                                                       !.rid = rop[c].rid]]
     ELSE /\ rctx' = [rctx EXCEPT ![c].loading = TRUE, ![c].error = <<>>]
          /\ rop' = [rop EXCEPT ![c] = SendBoth(rop[c], c, Ok, Ok)]
  /\ UNCHANGED <<restaurants, menu_items, mctx, mop, rev>>
  /\ UNCHANGED orderSide

\* --------------------------------------------------------------- menuService
\* EXISTS (SELECT 1 FROM restaurants WHERE id = rid AND user_id = auth.uid())
OwnsRestaurant(uid, rid) ==
  /\ rid \in RestaurantIds
  /\ restaurants[rid] # NoRestaurant
  /\ restaurants[rid].user_id = uid

\* policy "Anyone can view available menu items" (SELECT USING)
MenuItemsSelectUsing(uid, row) == row.available \/ OwnsRestaurant(uid, row.restaurant_id)

\* an insert policy that admits every user
MenuItemsInsertCheckAnyone(uid, row) == uid \in Users

\* policy "Restaurant owners can insert menu items" (INSERT WITH CHECK)
MenuItemsInsertCheck(uid, row) == OwnsRestaurant(uid, row.restaurant_id)

\* policy "Restaurant owners can update menu items" (USING, WITH CHECK)
MenuItemsUpdateUsing(uid, row) == OwnsRestaurant(uid, row.restaurant_id)
MenuItemsUpdateCheck(uid, row) == OwnsRestaurant(uid, row.restaurant_id)

\* policy "Restaurant owners can delete menu items" (DELETE USING)
MenuItemsDeleteUsing(uid, row) == OwnsRestaurant(uid, row.restaurant_id)

\* menu_items: NOT NULL price (NaN is sent as null) and the foreign key of
\* restaurant_id
MenuItemsConstraints(row) ==
  /\ row.price # NaN
  /\ row.restaurant_id \in RestaurantIds
  /\ restaurants[row.restaurant_id] # NoRestaurant

\* the row menuService.createMenuItem inserts (available !== false)
MenuInsertRow(id, d) ==
  MenuRow(id, d.restaurant_id.s, d.name.s, ParseFloat(d.price), TRUE)

FreeMenuIds == {i \in MenuIds : menu_items[i] = NoItem}

\* .from('menu_items').select('*').eq('restaurant_id', rid) asked by uid
SelectMenuItems(uid, rid) ==
  [i \in MenuIds |->
     IF /\ menu_items[i] # NoItem
        /\ MenuItemsSelectUsing(uid, menu_items[i])
        /\ menu_items[i].restaurant_id = rid
     THEN menu_items[i] ELSE NoItem]

\* updates of a menu item: one field of Partial<MenuItem> and its new value
MenuUpdates ==
  { [field |-> "price", value |-> Num(0)],
    [field |-> "price", value |-> Num(-5)],
    [field |-> "price", value |-> Num(2000)],
    [field |-> "available", value |-> JsFalse],
    [field |-> "restaurant_id", value |-> Str("r2")] }

ApplyMenuUpdate(row, u) ==
  CASE u.field = "price" -> [row EXCEPT !.price = u.value.n]
    [] u.field = "available" -> [row EXCEPT !.available = ~Falsy(u.value)]
    [] u.field = "restaurant_id" -> [row EXCEPT !.restaurant_id = u.value.s]
    [] OTHER -> row

\* .from('menu_items').update(updates).eq('id', id) asked by uid: a row the
\* update policy does not show is not updated and no error is returned
MenuItemsUpdateResult(uid, id, u) ==
  IF menu_items[id] = NoItem \/ ~MenuItemsUpdateUsing(uid, menu_items[id]) THEN Ok
  ELSE IF /\ MenuItemsUpdateCheck(uid, ApplyMenuUpdate(menu_items[id], u))
          /\ MenuItemsConstraints(ApplyMenuUpdate(menu_items[id], u))
       THEN Ok ELSE StoreError

MenuItemsAfterUpdate(uid, id, u) ==
  IF /\ menu_items[id] # NoItem
     /\ MenuItemsUpdateUsing(uid, menu_items[id])
     /\ MenuItemsUpdateResult(uid, id, u) = Ok
  THEN [menu_items EXCEPT ![id] = ApplyMenuUpdate(@, u)]
  ELSE menu_items

\* .from('menu_items').delete().eq('id', id) asked by uid
MenuItemsAfterDelete(uid, id) ==
  IF menu_items[id] # NoItem /\ MenuItemsDeleteUsing(uid, menu_items[id])
  THEN [menu_items EXCEPT ![id] = NoItem]
  ELSE menu_items

\* --------------------------------------------------------------- MenuContext
InitMenuContext == [menuItems |-> NoItems, loading |-> FALSE, error |-> <<>>]

MenuRequired == <<"restaurant_id", "name", "description", "price", "category">>

MenuTextValues == {Undefined, Str(""), Str(" "), Str("Ndole")}

\* itemData of addMenuItem
MenuInputs ==
  [restaurant_id : {Undefined, Str("r1"), Str("r2")}, name : MenuTextValues,
   description : MenuTextValues, price : NumberValues, category : MenuTextValues]

\* the required fields the loop finds missing or blank
MissingMenuFields(d) ==
  SelectSeq(MenuRequired,
            LAMBDA f : Falsy(d[f]) \/ (d[f].t = "string" /\ Trim(d[f].s) = ""))

\* a validation of the price that lets zero through
MenuPriceErrorAllowingZero(d) ==
  ToNumber(d.price) = NaN \/ ToNumber(d.price) < 0

\* isNaN(Number(itemData.price)) || Number(itemData.price) <= 0
MenuPriceError(d) ==
  ToNumber(d.price) = NaN \/ ToNumber(d.price) <= 0

\* addMenuItem's validation: the message of the error it throws, <<>> for none
MenuError(d) ==
  IF MissingMenuFields(d) # <<>>
  THEN <<FieldLabel(Head(MissingMenuFields(d))), "is required">>
  ELSE IF MenuPriceError(d)
  THEN <<"Valid item price is required">>
  ELSE <<>>

\* a MenuContext call: its argument (kept after the call), the store's response to
\* its write, held: the restaurant of the item as found in the menuItems the
\* handler closed over, and the list request it has sent (frid, fres, fsnap)
IdleMop ==
  [pc |-> "idle", kind |-> "null", data |-> NoForm, id |-> 0, res |-> "null",
   held |-> "null", frid |-> "null", fres |-> "null", fsnap |-> NoItems]

\* menuItems.find(item => item.id === itemId) ?.restaurant_id
HeldRestaurant(c, id) ==
  IF mctx[c].menuItems[id] # NoItem THEN mctx[c].menuItems[id].restaurant_id ELSE "null"

\* the request of fetchMenuItems(rid) leaves
SendMenuFetch(slot, c, rid, r) ==
  [slot EXCEPT !.pc = "fetching", !.frid = rid, !.fres = r,
               !.fsnap = IF r = Ok THEN SelectMenuItems(c, rid) ELSE NoItems]

\* fetchMenuItems up to the awaited response
fetchMenuItems(c, rid) ==
  /\ mop[c].pc = "idle"
  /\ mctx' = [mctx EXCEPT ![c].loading = TRUE, ![c].error = <<>>]
  /\ \E r \in FetchResults :
       mop' = [mop EXCEPT ![c] =
                 SendMenuFetch([IdleMop EXCEPT !.kind = "fetchMenuItems"], c, rid, r)]
  /\ UNCHANGED <<restaurants, menu_items, rctx, rop, rev>>
  /\ UNCHANGED orderSide

\* what a call leaves in its slot when it is over
MopDone(slot) ==
  [IdleMop EXCEPT !.kind = slot.kind, !.data = slot.data, !.id = slot.id]

\* fetchMenuItems after the await, and the return of the handler that called it
fetchMenuItemsResume(c) ==
  /\ mop[c].pc = "fetching"
  /\ mctx' = [mctx EXCEPT
                ![c].menuItems = IF mop[c].fres = Ok THEN mop[c].fsnap ELSE NoItems,
                ![c].error = IF mop[c].fres = Ok THEN @ ELSE <<"Failed to load menu items">>,
                ![c].loading = FALSE]
  /\ mop' = [mop EXCEPT ![c] = MopDone(mop[c])]
  /\ UNCHANGED <<restaurants, menu_items, rctx, rop, rev>>
  /\ UNCHANGED orderSide

\* addMenuItem up to the response of menuService.createMenuItem: a failed
\* validation throws before any request (catch: setError, rethrow; finally:
\* setLoading(false)); else the store runs the insert
addMenuItem(c, d) ==
  /\ mop[c].pc = "idle"
  /\ IF MenuError(d) # <<>>
     THEN /\ mctx' = [mctx EXCEPT ![c].loading = FALSE, ![c].error = MenuError(d)]
          /\ mop' = [mop EXCEPT ![c] = [IdleMop EXCEPT !.kind = "addMenuItem", !.data = d]]
          /\ menu_items' = menu_items
     ELSE /\ FreeMenuIds # {}
          /\ mctx' = [mctx EXCEPT ![c].loading = TRUE, ![c].error = <<>>]
          /\ LET id  == CHOOSE i \in FreeMenuIds : \A x \in FreeMenuIds : i <= x
                 row == MenuInsertRow(id, d)
                 ok  == MenuItemsInsertCheck(c, row) /\ MenuItemsConstraints(row)
             IN  /\ menu_items' = IF ok THEN [menu_items EXCEPT ![id] = row]
                                  ELSE menu_items
                 /\ mop' = [mop EXCEPT ![c] =
                              [IdleMop EXCEPT !.pc = "written", !.kind = "addMenuItem",
                                              !.data = d, !.id = id,
                                              !.held = d.restaurant_id.s,
                                              !.res = IF ok THEN Ok ELSE StoreError]]
  /\ UNCHANGED <<restaurants, rctx, rop, rev>>
  /\ UNCHANGED orderSide

\* updateMenuItem up to the response of menuService.updateMenuItem
updateMenuItem(c, id, u) ==
  /\ mop[c].pc = "idle"
  /\ mctx' = [mctx EXCEPT ![c].error = <<>>]
  /\ menu_items' = MenuItemsAfterUpdate(c, id, u)
  /\ mop' = [mop EXCEPT ![c] =
               [IdleMop EXCEPT !.pc = "written", !.kind = "updateMenuItem",
                               !.data = u, !.id = id, !.held = HeldRestaurant(c, id),
                               !.res = MenuItemsUpdateResult(c, id, u)]]
  /\ UNCHANGED <<restaurants, rctx, rop, rev>>
  /\ UNCHANGED orderSide

\* deleteMenuItem up to the response of menuService.deleteMenuItem
deleteMenuItem(c, id) ==
  /\ mop[c].pc = "idle"
  /\ mctx' = [mctx EXCEPT ![c].error = <<>>]
  /\ menu_items' = MenuItemsAfterDelete(c, id)
  /\ mop' = [mop EXCEPT ![c] =
               [IdleMop EXCEPT !.pc = "written", !.kind = "deleteMenuItem",
                               !.id = id, !.held = HeldRestaurant(c, id), !.res = Ok]]
  /\ UNCHANGED <<restaurants, rctx, rop, rev>>
  /\ UNCHANGED orderSide

\* toggleAvailability: updateMenuItem(itemId, { available: !item.available }) for an
\* item of the cached list, nothing for any other id
toggleAvailability(c, id) ==
  /\ mop[c].pc = "idle"
  /\ IF mctx[c].menuItems[id] # NoItem
     THEN updateMenuItem(c, id, [field |-> "available",
                                 value |-> IF mctx[c].menuItems[id].available
                                           THEN JsFalse ELSE JsTrue])
     ELSE /\ UNCHANGED <<restaurants, menu_items, rctx, mctx, rop, mop, rev>>
          /\ UNCHANGED orderSide

\* addMenuItem / updateMenuItem / deleteMenuItem after the write's response: an
\* error is recorded and rethrown; else the list of the item's restaurant is fetched
\* again (for an update or a delete only when the item was in the cached list);
\* the store answers this request without error
menuWriteResume(c) ==
  /\ mop[c].pc = "written"
  /\ IF mop[c].res # Ok
     THEN /\ mctx' = [mctx EXCEPT
                        ![c].error = <<mop[c].res>>,
                        ![c].loading = IF mop[c].kind = "addMenuItem" THEN FALSE ELSE @]
          /\ mop' = [mop EXCEPT ![c] = MopDone(mop[c])]
     ELSE IF mop[c].held = "null"
     THEN /\ mctx' = mctx
          /\ mop' = [mop EXCEPT ![c] = MopDone(mop[c])]
     ELSE /\ mctx' = [mctx EXCEPT ![c].loading = TRUE, ![c].error = <<>>]
          /\ mop' = [mop EXCEPT ![c] = SendMenuFetch(mop[c], c, mop[c].held, Ok)]
  /\ UNCHANGED <<restaurants, menu_items, rctx, rop, rev>>
  /\ UNCHANGED orderSide

\* ------------------------------------------------------------ authService
\* The AuthContext of a browser holds no user until a login, a register or the
\* startup verify succeeds, so the browsers are named apart from the users.  The
\* requests of authService go to the table users; whether the session the app
\* connects with is admitted to that table is a matter of the deployment, so
\* each request is answered either from the table or with an error.
Browsers == {"b1", "b2"}
Emails == {"a@x", "b@x"}
Passwords == {"pw1", "pw2"}
Names == {"Ann", "null"}

\* the id a persisted session can hold of a user the table does not hold
GoneUser == "u0"

\* users.role CHECK (role IN (...))
UserRoles == {"customer", "owner", "agent", "admin", "manager", "driver"}

\* a row of users (without its id), and the unused id
Account(email, hash, name, role) ==
  [email |-> email, password_hash |-> hash, name |-> name, role |-> role]
NoAccount == Account("", "", "", "")

\* bcrypt.hash(password, 10), and bcrypt.compare(password, hash): the salted hash
\* of a password is matched by that password and no other
Hash(p) == <<"bcrypt", p>>
Compare(p, h) == h = Hash(p)

\* the user object of a response: id, email, name and role of the row; register
\* and login build it without password_hash, verify does not select that column
UserData(id, row) ==
  [id |-> id, email |-> row.email, name |-> row.name, role |-> row.role]

\* no user: the null of AuthContext.user and the absent localStorage item
Nobody == [id |-> NoUser, email |-> "", name |-> "", role |-> ""]

\* what register is called with
RegisterInputs ==
  [email : Emails, password : Passwords, name : Names, role : {"customer", "superuser"}]

\* the constraints of users without the CHECK of role
UsersConstraintsAnyRole(row) ==
  /\ row.email # "null" /\ row.password_hash # "null" /\ row.name # "null"

\* users: email, password_hash and name NOT NULL, role CHECK (role IN (...))
UsersConstraints(row) ==
  /\ row.email # "null" /\ row.password_hash # "null" /\ row.name # "null"
  /\ row.role \in UserRoles

\* what the store answers to the insert of row had email no UNIQUE
UsersInsertResultNoUnique(r, row) ==
  IF r # Ok THEN r
  ELSE IF ~UsersConstraints(row) THEN "violates constraint"
  ELSE Ok

\* what the store answers to the insert of row, the request answered with r:
\* users.email is UNIQUE
UsersInsertResult(r, row) ==
  IF r # Ok THEN r
  ELSE IF \E u \in Users : users[u] # NoAccount /\ users[u].email = row.email
       THEN "duplicate key"
  ELSE IF ~UsersConstraints(row) THEN "violates constraint"
  ELSE Ok

\* the row register inserts
UserInsertRow(d) == Account(d.email, Hash(d.password), d.name, d.role)

FreeUserIds == {u \in Users : users[u] = NoAccount}

\* .from('users').select('*').eq('email', email).maybeSingle()
UsersByEmail(email) == {u \in Users : users[u] # NoAccount /\ users[u].email = email}

\* login with a wrong password reported apart from an unknown email
LoginResultNamingPassword(r, email, password) ==
  IF r # Ok THEN r
  ELSE IF UsersByEmail(email) = {} THEN "Invalid credentials"
  ELSE LET u == CHOOSE x \in UsersByEmail(email) : TRUE
       IN IF Compare(password, users[u].password_hash) THEN Ok ELSE "Wrong password"

\* authService.login: what the call ends with, the select answered with r
LoginResult(r, email, password) ==
  IF r # Ok THEN r
  ELSE IF UsersByEmail(email) = {} THEN "Invalid credentials"
  ELSE LET u == CHOOSE x \in UsersByEmail(email) : TRUE
       IN IF Compare(password, users[u].password_hash) THEN Ok ELSE "Invalid credentials"

LoginUser(r, email, password) ==
  IF LoginResult(r, email, password) = Ok
  THEN LET u == CHOOSE x \in UsersByEmail(email) : TRUE IN UserData(u, users[u])
  ELSE Nobody

\* authService.verify: .select('id, email, name, phone, town, role').eq('id', userId)
VerifyResult(r, id) ==
  IF r # Ok THEN r
  ELSE IF id \in Users /\ users[id] # NoAccount THEN Ok ELSE "User not found"

VerifyUser(r, id) ==
  IF VerifyResult(r, id) = Ok THEN UserData(id, users[id]) ELSE Nobody

\* ------------------------------------------------------------ AuthContext
\* useState<User | null>(null), useState(true)
InitAuthContext == [user |-> Nobody, loading |-> TRUE]

\* a call of authService awaited by the AuthContext: res and user are the
\* response in flight, ret is what the handler's last completed call returned
IdleAuthCall == [pc |-> "idle", res |-> "null", user |-> Nobody, ret |-> "none"]

\* the calls of a browser: the effect that runs once after mount, and one
\* verify, login and register at a time
IdleAop == [started |-> FALSE, verify |-> IdleAuthCall, login |-> IdleAuthCall,
            register |-> IdleAuthCall]

\* the startup effect: with a stored session it sends verify(userData.id), without
\* one it sets loading false
startup(b) ==
  /\ ~aop[b].started
  /\ IF session[b] # Nobody
     THEN /\ \E r \in FetchResults :
               aop' = [aop EXCEPT ![b].started = TRUE,
                                  ![b].verify = [pc |-> "sent",
                                                 res |-> VerifyResult(r, session[b].id),
                                                 user |-> VerifyUser(r, session[b].id),
                                                 ret |-> "none"]]
          /\ auth' = auth
     ELSE /\ aop' = [aop EXCEPT ![b].started = TRUE]
          /\ auth' = [auth EXCEPT ![b].loading = FALSE]
  /\ UNCHANGED <<users, session>>
  /\ UNCHANGED appSide

\* a startup effect that keeps the stored session when verify fails
verifyResumeKeepingSession(b) ==
  /\ aop[b].verify.pc = "sent"
  /\ IF aop[b].verify.res = Ok
     THEN /\ auth' = [auth EXCEPT ![b].user = aop[b].verify.user, ![b].loading = FALSE]
          /\ session' = session
     ELSE /\ auth' = [auth EXCEPT ![b].loading = FALSE]
          /\ session' = session
  /\ aop' = [aop EXCEPT ![b].verify = IdleAuthCall]
  /\ UNCHANGED users
  /\ UNCHANGED appSide

\* the startup effect from verify's response on: then setUser(response.user),
\* catch localStorage.removeItem, finally setLoading(false)
verifyResume(b) ==
  /\ aop[b].verify.pc = "sent"
  /\ IF aop[b].verify.res = Ok
     THEN /\ auth' = [auth EXCEPT ![b].user = aop[b].verify.user, ![b].loading = FALSE]
          /\ session' = session
     ELSE /\ auth' = [auth EXCEPT ![b].loading = FALSE]
          /\ session' = [session EXCEPT ![b] = Nobody]
  /\ aop' = [aop EXCEPT ![b].verify = IdleAuthCall]
  /\ UNCHANGED users
  /\ UNCHANGED appSide

\* login up to the response of authService.login
login(b, email, password) ==
  /\ aop[b].started /\ aop[b].login.pc = "idle"
  /\ \E r \in FetchResults :
       aop' = [aop EXCEPT ![b].login = [pc |-> "sent",
                                        res |-> LoginResult(r, email, password),
                                        user |-> LoginUser(r, email, password),
                                        ret |-> aop[b].login.ret]]
  /\ UNCHANGED <<users, session, auth>>
  /\ UNCHANGED appSide

\* login and register from the response on: on success the session is stored,
\* the user is set and true is returned; the catch returns false
loginResume(b) ==
  /\ aop[b].login.pc = "sent"
  /\ IF aop[b].login.res = Ok
     THEN /\ session' = [session EXCEPT ![b] = aop[b].login.user]
          /\ auth' = [auth EXCEPT ![b].user = aop[b].login.user]
          /\ aop' = [aop EXCEPT ![b].login = [IdleAuthCall EXCEPT !.ret = "true"]]
     ELSE /\ UNCHANGED <<session, auth>>
          /\ aop' = [aop EXCEPT ![b].login = [IdleAuthCall EXCEPT !.ret = "false"]]
  /\ UNCHANGED users
  /\ UNCHANGED appSide

\* register up to the response of authService.register: the hash, then the insert,
\* which the store runs against the constraints of users
register(b, d) ==
  /\ aop[b].started /\ aop[b].register.pc = "idle"
  /\ FreeUserIds # {}
  /\ \E r \in FetchResults :
       LET id  == CHOOSE u \in FreeUserIds : TRUE
           row == UserInsertRow(d)
       IN IF UsersInsertResult(r, row) = Ok
          THEN /\ users' = [users EXCEPT ![id] = row]
               /\ aop' = [aop EXCEPT ![b].register =
                            [pc |-> "sent", res |-> Ok,
                             user |-> UserData(id, row), ret |-> aop[b].register.ret]]
          ELSE /\ users' = users
               /\ aop' = [aop EXCEPT ![b].register =
                            [pc |-> "sent", res |-> UsersInsertResult(r, row),
                             user |-> Nobody, ret |-> aop[b].register.ret]]
  /\ UNCHANGED <<session, auth>>
  /\ UNCHANGED appSide

registerResume(b) ==
  /\ aop[b].register.pc = "sent"
  /\ IF aop[b].register.res = Ok
     THEN /\ session' = [session EXCEPT ![b] = aop[b].register.user]
          /\ auth' = [auth EXCEPT ![b].user = aop[b].register.user]
          /\ aop' = [aop EXCEPT ![b].register = [IdleAuthCall EXCEPT !.ret = "true"]]
     ELSE /\ UNCHANGED <<session, auth>>
          /\ aop' = [aop EXCEPT ![b].register = [IdleAuthCall EXCEPT !.ret = "false"]]
  /\ UNCHANGED users
  /\ UNCHANGED appSide

\* logout: localStorage.removeItem('smartbite_user'); setUser(null)
logout(b) ==
  /\ aop[b].started
  /\ session' = [session EXCEPT ![b] = Nobody]
  /\ auth' = [auth EXCEPT ![b].user = Nobody]
  /\ UNCHANGED <<users, aop>>
  /\ UNCHANGED appSide

\* ------------------------------------------------------------ initial states
InitRestaurants == [r \in RestaurantIds |-> RestaurantRow("u1", "Chez", 500, 2000)]

InitContainers ==
  /\ cache = [c \in Users |-> NoOrders]
  /\ loading = [c \in Users |-> FALSE]
  /\ error = [c \in Users |-> <<>>]
  /\ upd = [c \in Users |-> IdleUpd]
  /\ lst = [c \in Users |-> IdleLst]
  /\ rev = [c \in Users |-> IdleRev]
  /\ calls = 0
  /\ rctx = [c \in Users |-> InitRestaurantContext]
  /\ mctx = [c \in Users |-> InitMenuContext]
  /\ rop = [c \in Users |-> IdleRop]
  /\ mop = [c \in Users |-> IdleMop]

\* the accounts of the registered users, and browsers that hold no session
InitUsers == [u \in Users |-> Account(u, Hash("pw1"), u, UserRole[u])]

InitClient ==
  /\ InitContainers
  /\ users = InitUsers
  /\ session = [b \in Browsers |-> Nobody]
  /\ auth = [b \in Browsers |-> InitAuthContext]
  /\ aop = [b \in Browsers |-> IdleAop]

\* The rating aggregation starts from a store that holds an order of the owner u1
\* and an order of u2, each ready or already delivered; u3 has ordered nothing
InitReview ==
  /\ restaurants = InitRestaurants
  /\ menu_items = NoItems
  /\ \E s1, s2 \in {"ready", "delivered"} :
       orders = [id \in OrderIds |->
                   IF id = 1 THEN OrderRow(1, "u1", "r1", "u2", s1, 13, 2, 15)
                   ELSE IF id = 2 THEN OrderRow(2, "u2", "r1", "u2", s2, 13, 2, 15)
                   ELSE NoRow]
  /\ reviews = <<>>
  /\ InitClient

\* a handler call is started within the budget of calls; a step that resumes a
\* call, or that the store runs for one, starts none
Start == calls < MaxCalls /\ calls' = calls + 1 /\ UNCHANGED catalog /\ UNCHANGED authSide
Keep == calls' = calls /\ UNCHANGED catalog /\ UNCHANGED authSide

\* the clients that write reviews are those of the two customers; u3's client
\* calls updateRestaurantRating on its own
ReviewClients == {"u1", "u2"}
RatingClients == {"u3"}

NextReview ==
  \/ \E c \in ReviewClients, d \in ReviewInputs : Keep /\ createReviewInsert(c, d)
  \/ \E c \in RatingClients, r \in RestaurantIds : Keep /\ updateRestaurantRating(c, r)
  \/ \E c \in Users : Keep /\ updateRestaurantRatingFetch(c)
  \/ \E c \in Users : Keep /\ updateRestaurantRatingWrite(c)

SpecReview == InitReview /\ [][NextReview]_vars


\* Repeated reviews: each customer's client reviews restaurant r1 for an order it
\* names, any number of times, with the ratings 3 and 5
RepeatInputs == {d \in ReviewInputs : d.restaurant_id = "r1" /\ d.rating \in {"3", "5"}}

NextRepeat ==
  \/ \E c \in ReviewClients :
       \E d \in {x \in RepeatInputs : x.customer_id = c} : Keep /\ createReviewInsert(c, d)
  \/ \E c \in ReviewClients : Keep /\ updateRestaurantRatingFetch(c)
  \/ \E c \in ReviewClients : Keep /\ updateRestaurantRatingWrite(c)

SpecRepeat == InitReview /\ [][NextRepeat]_vars


\* The clients start against a store that holds one order of customer u3 at
\* restaurant r1: as created, or made ready and given to driver u2 by the owner
InitOrders ==
  /\ restaurants = InitRestaurants
  /\ menu_items = NoItems
  /\ \E p \in {<<NoUser, "pending">>, <<"u2", "ready">>} :
       orders = [id \in OrderIds |->
                   IF id = 1 THEN OrderRow(1, "u3", "r1", p[1], p[2], 13, 2, 15) ELSE NoRow]
  /\ reviews = <<>>
  /\ InitClient

\* the requests the clients make of the order handlers
SpecStatusInputs == {"delivered", "bogus"}
SpecDriverInputs == {NoUser, "u2"}
SpecOrderInputs ==
  {d \in OrderInputs : d.items = 2 /\ d.delivery_address # " " /\ Extras(d) = NoExtras}

Next ==
  \/ \E c \in Users, s \in SpecStatusInputs, d \in SpecDriverInputs :
       Start /\ updateOrderStatus(c, 1, s, d)
  \/ \E c \in Users : Start /\ acceptDelivery(c, 1)
  \/ \E c \in Users : Start /\ getCustomerOrders(c)
  \/ \E c \in Users : Start /\ getAgentOrders(c)
  \/ \E c \in Users : Start /\ getRestaurantOrders(c)
  \/ \E c \in Users, d \in SpecOrderInputs : Start /\ createOrder(c, d)
  \/ \E c \in Users : Keep /\ updateOrderStatusResume(c)
  \/ \E c \in Users : Keep /\ acceptDeliveryResume(c)
  \/ \E c \in Users : Keep /\ getOrdersResume(c)
  \/ \E c \in Users : Keep /\ createOrderResume(c)

Spec == InitOrders /\ [][Next]_vars

\* The order lifecycle in the store: every status a request can name, the
\* requests answered one at a time
NoCallInFlight == \A c \in Users : upd[c].pc = "idle"
LifecycleDriverInputs == {NoUser, "u2", "u3"}

NextLifecycle ==
  \/ \E c \in Users, id \in OrderIds, s \in StatusInputs, d \in LifecycleDriverInputs :
       NoCallInFlight /\ Keep /\ updateOrderStatus(c, id, s, d)
  \/ \E c \in Users, id \in OrderIds : NoCallInFlight /\ Keep /\ acceptDelivery(c, id)
  \/ \E c \in Users : Keep /\ updateOrderStatusResume(c)
  \/ \E c \in Users : Keep /\ acceptDeliveryResume(c)

SpecLifecycle == InitOrders /\ [][NextLifecycle]_vars

\* Deliveries: the owner gives the order to a driver, the drivers load their
\* deliveries and accept the order, all calls interleaving freely
Drivers == {u \in Users : UserRole[u] = "driver"}

NextAccept ==
  \/ \E d \in Drivers : Keep /\ updateOrderStatus(RestaurantOwner("r1"), 1, "ready", d)
  \/ \E c \in Users : Keep /\ updateOrderStatusResume(c)
  \/ \E c \in Drivers : Keep /\ getAgentOrders(c)
  \/ \E c \in Users : Keep /\ getOrdersResume(c)
  \/ \E c \in Drivers : Keep /\ acceptDelivery(c, 1)
  \/ \E c \in Users : Keep /\ acceptDeliveryResume(c)

SpecAccept == InitOrders /\ [][NextAccept]_vars

\* Order creation: the customer's client and a driver's create orders from orderData
\* that names any status, customer and driver
CreateClients == {"u2", "u3"}
CreateInputs ==
  {d \in OrderInputs : d.items = 2 /\ d.delivery_address # " " /\ d.total # "16"}

NextCreate ==
  \/ \E c \in CreateClients, d \in CreateInputs : Start /\ createOrder(c, d)
  \/ \E c \in Users : Keep /\ createOrderResume(c)
  \/ \E c \in Users : Keep /\ getOrdersResume(c)

SpecCreate == InitOrders /\ [][NextCreate]_vars

\* The cached order lists: customer u3 has two orders at r1, the first given to
\* driver u2, the second to u2 or to u4; the clients load their lists and update
\* the orders, the owner handing an order to u4
InitCache ==
  /\ restaurants = InitRestaurants
  /\ menu_items = NoItems
  /\ \E d \in {"u2", "u4"} :
       orders = [id \in OrderIds |->
                   IF id = 1 THEN OrderRow(1, "u3", "r1", "u2", "ready", 13, 2, 15)
                   ELSE IF id = 2 THEN OrderRow(2, "u3", "r1", d, "confirmed", 13, 2, 15)
                   ELSE NoRow]
  /\ reviews = <<>>
  /\ InitClient

CacheStatusInputs == {"delivered", "bogus"}
CacheDriverInputs == {NoUser, "u4"}
CacheClients == {"u2", "u3"}
StoredOrderIds == {id \in OrderIds : orders[id] # NoRow}

NextCache ==
  \/ \E c \in CacheClients : Start /\ getCustomerOrders(c)
  \/ \E c \in CacheClients : Start /\ getAgentOrders(c)
  \/ \E c \in Users : Keep /\ getOrdersResume(c)
  \/ \E c \in CacheClients \cup {"u1"}, id \in StoredOrderIds,
        s \in CacheStatusInputs, d \in CacheDriverInputs :
       Start /\ updateOrderStatus(c, id, s, d)
  \/ \E c \in Users : Keep /\ updateOrderStatusResume(c)

SpecCache == InitCache /\ [][NextCache]_vars

\* Driver assignment: the owner's client and driver u2's load their lists, update
\* the two stored orders with and without a driver id, and accept them
DriverClients == {"u1", "u2"}
DriverStatusInputs == {"delivering", "delivered"}

NextDriver ==
  \/ \E c \in DriverClients : Start /\ getAgentOrders(c)
  \/ \E c \in DriverClients : Keep /\ getOrdersResume(c)
  \/ \E c \in DriverClients, id \in StoredOrderIds,
        s \in DriverStatusInputs, d \in CacheDriverInputs :
       Start /\ updateOrderStatus(c, id, s, d)
  \/ \E c \in DriverClients : Keep /\ updateOrderStatusResume(c)
  \/ \E c \in DriverClients, id \in StoredOrderIds : Start /\ acceptDelivery(c, id)
  \/ \E c \in DriverClients : Keep /\ acceptDeliveryResume(c)

SpecDriver == InitCache /\ [][NextDriver]_vars

\* One client alone: driver u2's client loads its lists, updates and accepts the
\* stored orders, and no other client writes to the store
SoloClients == {"u2"}

NextSolo ==
  \/ \E c \in SoloClients : Start /\ getAgentOrders(c)
  \/ \E c \in SoloClients : Start /\ getCustomerOrders(c)
  \/ \E c \in SoloClients : Keep /\ getOrdersResume(c)
  \/ \E c \in SoloClients, id \in StoredOrderIds,
        s \in CacheStatusInputs, d \in CacheDriverInputs :
       Start /\ updateOrderStatus(c, id, s, d)
  \/ \E c \in SoloClients : Keep /\ updateOrderStatusResume(c)
  \/ \E c \in SoloClients, id \in StoredOrderIds : Start /\ acceptDelivery(c, id)
  \/ \E c \in SoloClients : Keep /\ acceptDeliveryResume(c)

SpecSolo == InitCache /\ [][NextSolo]_vars

\* =================================================================== claims
\* the ratings stored for restaurant rid, and what it is for q to be their mean
RatingsOf(rid) == [i \in {j \in 1..Len(reviews) : reviews[j].restaurant_id = rid} |->
                     reviews[i].rating]

RECURSIVE SumOver(_, _)
SumOver(f, S) == IF S = {} THEN 0
                 ELSE LET x == CHOOSE y \in S : TRUE IN f[x] + SumOver(f, S \ {x})

IsMeanOf(q, f) ==
  /\ DOMAIN f # {}
  /\ q.den > 0 /\ Gcd(q.num, q.den) = 1
  /\ q.num * Cardinality(DOMAIN f) = SumOver(f, DOMAIN f) * q.den

IsMeanOfStored(q, rid) == IsMeanOf(q, RatingsOf(rid))

Four == [num |-> 4, den |-> 1]

\* C1 (as claimed): two createReview calls that overlapped, for a restaurant with
\* no prior review, with ratings 5 and 3: once both have completed the stored
\* rating is 4.0
C1_ConcurrentReviewsGiveMean ==
  \A a, b \in Users, r \in RestaurantIds :
    ( /\ a # b
      /\ rev[a].pc = "done" /\ rev[b].pc = "done"
      /\ rev[a].call = "createReview" /\ rev[b].call = "createReview"
      /\ rev[a].rid = r /\ rev[b].rid = r
      /\ ~rev[a].alone /\ ~rev[b].alone
      /\ Len(reviews) = 2
      /\ reviews[1].restaurant_id = r /\ reviews[2].restaurant_id = r
      /\ {reviews[1].customer_id, reviews[2].customer_id} = {a, b}
      /\ {reviews[1].rating, reviews[2].rating} = {3, 5} )
    => restaurants[r].rating = Four

\* the step in which client c's updateRestaurantRating receives the ratings
RatingFetchStep(c) ==
  rev[c].pc \in {"inserted", "called"} /\ rev'[c].pc \in {"fetched", "nowrite"}

\* the step in which client c's updateRestaurantRating issues its write
RatingWriteStep(c) == rev[c].pc = "fetched" /\ rev'[c].pc = "done"

C4_RatingIsMeanAfterReview ==
  [][\A c \in Users :
       (RatingWriteStep(c) /\ rev[c].call = "createReview" /\ rev'[c].alone)
         => IsMeanOf(restaurants'[rev[c].rid].rating,
                     [i \in {j \in 1..Len(reviews') : reviews'[j].restaurant_id = rev[c].rid}
                        |-> reviews'[i].rating])
    ]_vars

\* the step in which the store answers the insert of client c's createReview
ReviewInsertStep(c) ==
  /\ RevReturned(c)
  /\ rev'[c].pc \in {"inserted", "raised"}
  /\ rev'[c] # rev[c]

\* what the claim asks of a review row stored for requester c
ReviewAllowed(c, row) ==
  /\ row.customer_id = c
  /\ row.order_id \in OrderIds
  /\ orders[row.order_id] # NoRow
  /\ orders[row.order_id].customer_id = c
  /\ orders[row.order_id].status = "delivered"

AcceptReturn(c) ==
  upd[c].pc = "replied" /\ upd[c].kind = "accept" /\ upd'[c].pc = "idle"

\* client c's cached list shows order id as held by c
Believes(list, c, id) == list[c][id] # NoRow /\ list[c][id].driver_id = c

\* C2 (as claimed): when an acceptDelivery of driver b returns without an error,
\* no other driver a whose acceptDelivery of the same order overlapped it and has
\* returned without an error shows the order as its own while b's list does too
C2_AtMostOneAcceptorBelieves ==
  [][\A a, b \in Users :
       ( /\ a # b /\ UserRole[a] = "driver" /\ UserRole[b] = "driver"
         /\ AcceptReturn(b) /\ upd[b].res = Ok
         /\ a \in upd[b].returned )
       => ~(Believes(cache', a, upd[b].id) /\ Believes(cache', b, upd[b].id))
    ]_vars

\* C6 (as claimed): every stored order has total = subtotal + delivery_fee
C6_TotalIsSubtotalPlusFee ==
  \A id \in OrderIds :
    orders[id] # NoRow => orders[id].total = orders[id].subtotal + orders[id].delivery_fee

\* the step in which the store answers an updateOrderStatus / acceptDelivery
\* request of client c on order id
UpdateRequestStep(c, id) ==
  upd[c].pc = "idle" /\ upd'[c].pc = "replied" /\ upd'[c].id = id

\* c is the order's assigned driver or the owner of its restaurant
DriverOrOwner(c, row) ==
  c = row.driver_id \/ c = restaurants[row.restaurant_id].user_id

C8_AcceptSetsDeliveringAndDriver ==
  [][\A c \in Users, id \in OrderIds :
       ( /\ UpdateRequestStep(c, id) /\ upd'[c].kind = "accept"
         /\ upd'[c].res = Ok
         /\ orders[id] # NoRow )
       => /\ orders'[id].status = "delivering"
          /\ orders'[id].driver_id = c
    ]_vars

\* the step in which client c's updateOrderStatus returns or throws
UpdateReturn(c) ==
  upd[c].pc = "replied" /\ upd[c].kind = "update" /\ upd'[c].pc = "idle"

\* C9 (as claimed): every stored status is of the domain, and an updateOrderStatus
\* to a status outside it changes neither the store nor the caller's cached list
\* and ends with the caller's error set
C9_StatusDomainEnforced ==
  [][/\ \A id \in OrderIds : orders'[id] # NoRow => orders'[id].status \in OrderStatus
     /\ \A c \in Users :
          /\ (\E id \in OrderIds : UpdateRequestStep(c, id)
                                    /\ upd'[c].status \notin OrderStatus)
               => orders' = orders
          /\ (UpdateReturn(c) /\ upd[c].status \notin OrderStatus)
               => /\ cache'[c] = cache[c]
                  /\ error'[c] # <<>>
    ]_vars

\* C10: an updateOrderStatus to a status of the domain, requested by the owner of the
\* order's restaurant or by its assigned driver (who keeps the order), is answered
\* without an error and stores the target status, whatever the status was
C10_AnyStatusFromAnyStatus ==
  [][\A c \in Users, id \in OrderIds :
       ( /\ UpdateRequestStep(c, id) /\ upd'[c].kind = "update"
         /\ orders[id] # NoRow
         /\ upd'[c].status \in OrderStatus
         /\ \/ c = restaurants[orders[id].restaurant_id].user_id
            \/ c = orders[id].driver_id /\ upd'[c].driver \in {NoUser, c} )
       => /\ upd'[c].res = Ok
          /\ orders'[id].status = upd'[c].status
          /\ orders'[id].driver_id =
               IF upd'[c].driver = NoUser THEN orders[id].driver_id ELSE upd'[c].driver
    ]_vars

\* C10 witness: the assigned driver has moved a delivered order back to pending
C10_Witness ==
  \E c \in Users :
    /\ upd[c].pc = "replied" /\ upd[c].kind = "update" /\ upd[c].id = 1
    /\ UserRole[c] = "driver" /\ c = orders[1].driver_id
    /\ upd[c].was = "delivered" /\ upd[c].status = "pending"
    /\ upd[c].res = Ok /\ orders[1].status = "pending"

\* The catalog starts with restaurant r1 of owner u1 and its one menu item; r2 is
\* not created yet.  Customer u2 has a delivered order at r1 and has reviewed it
\* with four stars; the rating of r1 is still the default
InitCatalog ==
  /\ restaurants = [r \in RestaurantIds |->
                      IF r = "r1" THEN RestaurantRow("u1", "Chez", 500, 2000)
                      ELSE NoRestaurant]
  /\ menu_items = [i \in MenuIds |->
                     IF i = 1 THEN MenuRow(1, "r1", "Ndole", 2000, TRUE) ELSE NoItem]
  /\ orders = [id \in OrderIds |->
                 IF id = 1 THEN OrderRow(1, "u2", "r1", "u4", "delivered", 13, 2, 15)
                 ELSE NoRow]
  /\ reviews = <<ReviewRow("r1", "u2", 1, 4)>>
  /\ InitClient

\* the clients of owner u1 and of u2, who owns no restaurant at the start
CatalogClients == {"u1", "u2"}

GoodRestaurant ==
  [name |-> Str("Chez"), description |-> Str("Chez"), town |-> Str("Chez"),
   address |-> Str("Chez"), phone |-> Str("Chez"), delivery_time |-> Str("Chez"),
   delivery_fee |-> Str("500"), min_order |-> Str("2000"), categories |-> Arr(1)]

\* restaurant forms: a complete one and one whose fee is blank
CatalogRestaurantInputs ==
  { GoodRestaurant, [GoodRestaurant EXCEPT !.delivery_fee = Str(" ")] }

\* restaurant updates: a rating and a new owner
CatalogRestaurantUpdates == {u \in RestaurantUpdates : u.field \in {"rating", "user_id"}}

GoodMenuItem ==
  [restaurant_id |-> Str("r1"), name |-> Str("Ndole"), description |-> Str("Ndole"),
   price |-> Str("500"), category |-> Str("Ndole")]

\* menu item forms: a complete one for r1 and one for r2
CatalogMenuInputs ==
  { GoodMenuItem, [GoodMenuItem EXCEPT !.restaurant_id = Str("r2")] }

\* menu item updates: a price and a move to restaurant r2
CatalogMenuUpdates ==
  {u \in MenuUpdates : u.value \in {Num(0), Str("r2")}}

\* a catalog call is started while the budget of calls has room for one more
StartCatalog == calls + 1 < MaxCalls /\ calls' = calls + 1 /\ UNCHANGED authSide
KeepCatalog == calls' = calls /\ UNCHANGED authSide

NextCatalog ==
  \/ \E c \in CatalogClients, d \in CatalogRestaurantInputs :
       StartCatalog /\ createRestaurant(c, d)
  \/ \E c \in CatalogClients, r \in RestaurantIds, u \in CatalogRestaurantUpdates :
       StartCatalog /\ updateRestaurant(c, r, u)
  \/ \E c \in CatalogClients : KeepCatalog /\ restaurantWriteResume(c)
  \/ \E c \in CatalogClients : StartCatalog /\ fetchRestaurants(c)
  \/ \E c \in CatalogClients : StartCatalog /\ fetchMyRestaurant(c)
  \/ \E c \in CatalogClients : KeepCatalog /\ fetchRestaurantsResume(c)
  \/ \E c \in CatalogClients : KeepCatalog /\ fetchMyRestaurantResume(c)
  \/ \E c \in CatalogClients, d \in CatalogMenuInputs : StartCatalog /\ addMenuItem(c, d)
  \/ \E c \in CatalogClients, i \in MenuIds, u \in CatalogMenuUpdates :
       StartCatalog /\ updateMenuItem(c, i, u)
  \/ \E c \in CatalogClients, i \in MenuIds : StartCatalog /\ deleteMenuItem(c, i)
  \/ \E c \in CatalogClients : KeepCatalog /\ menuWriteResume(c)
  \/ \E c \in CatalogClients : KeepCatalog /\ fetchMenuItemsResume(c)
  \/ \E c \in CatalogClients :
       StartCatalog /\ UNCHANGED catalog /\ updateRestaurantRating(c, "r1")
  \/ \E c \in CatalogClients : Keep /\ updateRestaurantRatingFetch(c)
  \/ \E c \in CatalogClients : Keep /\ updateRestaurantRatingWrite(c)

SpecCatalog == InitCatalog /\ [][NextCatalog]_vars

\* menu item forms: complete, priced zero as text, with a blank name
MenuFormInputs ==
  { GoodMenuItem,
    [GoodMenuItem EXCEPT !.price = Str("0")],
    [GoodMenuItem EXCEPT !.name = Str(" ")] }

\* a menu call is started within the budget of calls
StartMenu == calls < MaxCalls /\ calls' = calls + 1 /\ UNCHANGED authSide

\* the menu handlers of the clients of owner u1 and of u2
NextMenu ==
  \/ \E c \in CatalogClients : StartMenu /\ fetchMenuItems(c, "r1")
  \/ \E c \in CatalogClients, d \in MenuFormInputs : StartMenu /\ addMenuItem(c, d)
  \/ \E c \in CatalogClients, i \in MenuIds, u \in MenuUpdates :
       StartMenu /\ updateMenuItem(c, i, u)
  \/ \E c \in CatalogClients, i \in MenuIds : StartMenu /\ deleteMenuItem(c, i)
  \/ \E c \in CatalogClients, i \in MenuIds : StartMenu /\ toggleAvailability(c, i)
  \/ \E c \in CatalogClients : KeepCatalog /\ menuWriteResume(c)
  \/ \E c \in CatalogClients : KeepCatalog /\ fetchMenuItemsResume(c)

SpecMenu == InitCatalog /\ [][NextMenu]_vars

\* One form is submitted in a run: owner u1 creates a restaurant or adds a menu
\* item, or customer u3 places an order, with any of the form values
StartForm == calls = 0 /\ calls' = 1 /\ UNCHANGED authSide

FormOrderInputs == {d \in OrderInputs : Extras(d) = NoExtras}

NextForms ==
  \/ StartForm /\ \E d \in RestaurantInputs : createRestaurant("u1", d)
  \/ StartForm /\ \E d \in MenuInputs : addMenuItem("u1", d)
  \/ StartForm /\ UNCHANGED catalog /\ \E d \in FormOrderInputs : createOrder("u3", d)
  \/ \E c \in Users : KeepCatalog /\ restaurantWriteResume(c)
  \/ \E c \in Users : KeepCatalog /\ fetchRestaurantsResume(c)
  \/ \E c \in Users : KeepCatalog /\ fetchMyRestaurantResume(c)
  \/ \E c \in Users : KeepCatalog /\ menuWriteResume(c)
  \/ \E c \in Users : KeepCatalog /\ fetchMenuItemsResume(c)
  \/ \E c \in Users : Keep /\ createOrderResume(c)
  \/ \E c \in Users : Keep /\ getOrdersResume(c)

SpecForms == InitCatalog /\ [][NextForms]_vars


\* The list fetches: the clients of customer u2 and of driver u4 load their orders,
\* the menu of r1 and the restaurants, each select answered with rows or an error
FetchClients == {"u2", "u4"}

NextFetch ==
  \/ \E c \in FetchClients : Start /\ getCustomerOrders(c)
  \/ \E c \in FetchClients : Start /\ getAgentOrders(c)
  \/ \E c \in FetchClients : Keep /\ getOrdersResume(c)
  \/ \E c \in FetchClients : StartMenu /\ fetchMenuItems(c, "r1")
  \/ \E c \in FetchClients : KeepCatalog /\ fetchMenuItemsResume(c)
  \/ \E c \in FetchClients : StartMenu /\ fetchRestaurants(c)
  \/ \E c \in FetchClients : KeepCatalog /\ fetchRestaurantsResume(c)

SpecFetch == InitCatalog /\ [][NextFetch]_vars

\* Accounts: the table holds the account of u1; browser b1 starts with no
\* session, with the session of u1 or with the session of a user that is gone,
\* runs its startup effect, and its user logs in, registers and logs out while
\* the verify of the startup may still be in flight; browser b2 starts without
\* a session and registers accounts too
StoredAccount == Account("a@x", Hash("pw1"), "Ann", "customer")

InitSessions ==
  {Nobody, UserData("u1", StoredAccount), UserData(GoneUser, StoredAccount)}

InitAuth ==
  /\ restaurants = InitRestaurants
  /\ menu_items = NoItems
  /\ orders = [id \in OrderIds |-> NoRow]
  /\ reviews = <<>>
  /\ InitContainers
  /\ users = [u \in Users |-> IF u = "u1" THEN StoredAccount ELSE NoAccount]
  /\ \E s \in InitSessions : session = [b \in Browsers |-> IF b = "b1" THEN s ELSE Nobody]
  /\ auth = [b \in Browsers |-> InitAuthContext]
  /\ aop = [b \in Browsers |-> IdleAop]

StartAuth == calls < MaxCalls /\ calls' = calls + 1
KeepAuth == calls' = calls

\* the forms registered with: a new password, either email, a role of the list
\* or one outside it
AuthRegisterInputs == {d \in RegisterInputs : d.name = "Ann" /\ d.password = "pw2"}

NextAuth ==
  \/ \E b \in Browsers : KeepAuth /\ startup(b)
  \/ \E b \in Browsers : KeepAuth /\ verifyResume(b)
  \/ \E e \in Emails, p \in Passwords : StartAuth /\ login("b1", e, p)
  \/ \E b \in Browsers : KeepAuth /\ loginResume(b)
  \/ \E b \in Browsers, d \in AuthRegisterInputs : StartAuth /\ register(b, d)
  \/ \E b \in Browsers : KeepAuth /\ registerResume(b)
  \/ StartAuth /\ logout("b1")

SpecAuth == InitAuth /\ [][NextAuth]_vars

\* Pending calls: the clients of owner u1 and of customer u3 create restaurants
\* and orders and load their orders; a response may arrive at any time or never
PendingClients == {"u1", "u3"}
PendingOrderInputs ==
  {d \in FormOrderInputs : d.restaurant_id = "r1" /\ d.delivery_address # " " /\ d.total = "15"}

NextPending ==
  \/ \E c \in PendingClients, d \in CatalogRestaurantInputs :
       StartMenu /\ createRestaurant(c, d)
  \/ \E c \in PendingClients : KeepCatalog /\ restaurantWriteResume(c)
  \/ \E c \in PendingClients : KeepCatalog /\ fetchRestaurantsResume(c)
  \/ \E c \in PendingClients : KeepCatalog /\ fetchMyRestaurantResume(c)
  \/ \E c \in PendingClients, d \in PendingOrderInputs : Start /\ createOrder(c, d)
  \/ \E c \in PendingClients : Keep /\ createOrderResume(c)
  \/ \E c \in PendingClients : Start /\ getCustomerOrders(c)
  \/ \E c \in PendingClients : Keep /\ getOrdersResume(c)

SpecPending == InitCatalog /\ [][NextPending]_vars

\* every remote call responds and the handler awaiting it is resumed: the event
\* loop runs a continuation once its promise has settled
PendingFairness ==
  \A c \in PendingClients :
    /\ WF_vars(KeepCatalog /\ restaurantWriteResume(c))
    /\ WF_vars(KeepCatalog /\ fetchRestaurantsResume(c))
    /\ WF_vars(KeepCatalog /\ fetchMyRestaurantResume(c))
    /\ WF_vars(Keep /\ createOrderResume(c))
    /\ WF_vars(Keep /\ getOrdersResume(c))

SpecPendingFair == SpecPending /\ PendingFairness

\* the step in which the store answers the insert of client c's createOrder
OrderInsertStep(c) == lst[c].pc = "idle" /\ lst'[c].pc = "inserted"

\* C11: an order comes into the store only in the step of a createOrder insert,
\* and it is stored pending, with the caller as customer and without a driver,
\* whatever status, customer_id and driver_id the caller's orderData holds
C11_CreatedPendingOwnNoDriver ==
  [][\A id \in OrderIds :
       (orders[id] = NoRow /\ orders'[id] # NoRow) =>
         \E c \in Users :
           /\ OrderInsertStep(c) /\ lst'[c].res = Ok
           /\ orders'[id].id = id
           /\ orders'[id].status = "pending"
           /\ orders'[id].customer_id = c
           /\ orders'[id].driver_id = NoUser
    ]_vars

\* C11 witness: an order was stored for a caller whose orderData named the status
\* delivered, another customer and a driver
C11_Witness ==
  \E c \in Users \ {"u1"}, id \in OrderIds :
    /\ lst[c].pc = "inserted" /\ lst[c].res = Ok
    /\ lst[c].extras = [status |-> "delivered", customer_id |-> "u1", driver_id |-> "u2"]
    /\ id # 1 /\ orders[id] # NoRow
    /\ orders[id].customer_id = c /\ orders[id].status = "pending"
    /\ orders[id].driver_id = NoUser

\* ------------------------------------------------------ cached list claims
\* a is the order's customer, its assigned driver or the owner of its restaurant
Related(a, row) ==
  \/ a = row.customer_id
  \/ a = row.driver_id
  \/ a = restaurants[row.restaurant_id].user_id

\* the step in which the store answers the select of a get...Orders call of c
\* (getCustomerOrders called by createOrder included)
FetchStep(c) == lst[c].pc \in {"idle", "inserted"} /\ lst'[c].pc = "fetching"

\* the step in which a get...Orders call of c returns
FetchReturn(c) == lst[c].pc = "fetching" /\ lst'[c].pc = "idle"

OrderColumns == {"customer_id", "restaurant_id", "driver_id"}

\* the values an order's column can be compared with
ColumnValues(col) == IF col = "restaurant_id" THEN RestaurantIds ELSE Users

\* every order query, whoever asks and whatever it filters by, answers with
\* stored orders of which the asker is customer, assigned driver or owner
QueriesShowOwnOrders ==
  \A a \in Users, col \in OrderColumns : \A v \in ColumnValues(col) :
    LET q == SelectOrders(a, col, v)
    IN  \A id \in OrderIds :
          q[id] # NoRow => (q[id] = orders[id] /\ Related(a, orders[id]))

C19_RestaurantOrdersLoaded ==
  [][\A c \in Users :
       /\ (FetchStep(c) /\ lst'[c].kind = "restaurant" /\ lst'[c].res = Ok) =>
            \A id \in OrderIds :
              lst'[c].snap[id] =
                IF orders[id] # NoRow /\ restaurants[orders[id].restaurant_id].user_id = c
                THEN orders[id] ELSE NoRow
       /\ (FetchReturn(c) /\ lst[c].kind = "restaurant" /\ lst[c].res = Ok) =>
            cache'[c] = lst[c].snap
    ]_vars

\* the column getCustomerOrders / getAgentOrders compares with the user's id
FetchColumn(kind) == IF kind = "agent" THEN "driver_id" ELSE "customer_id"

\* C20: the select of getCustomerOrders (getAgentOrders), answered without error,
\* reads exactly the stored orders whose customer_id (driver_id) is the caller, and
\* on return the caller's cached list is what that select read, the error flag as
\* it was, whatever update of the same client was in flight
C20_FetchMirrorsQuery ==
  [][\A c \in Users :
       /\ (FetchStep(c) /\ lst'[c].kind \in {"customer", "agent", "create"}
                        /\ lst'[c].res = Ok) =>
            \A id \in OrderIds :
              lst'[c].snap[id] =
                IF orders[id] # NoRow /\ orders[id][FetchColumn(lst'[c].kind)] = c
                THEN orders[id] ELSE NoRow
       /\ (FetchReturn(c) /\ lst[c].kind \in {"customer", "agent", "create"}
                          /\ lst[c].res = Ok) =>
            /\ cache'[c] = lst[c].snap
            /\ error'[c] = error[c]
            /\ loading'[c] = FALSE
    ]_vars

\* C20 witness: customer u3 has loaded its two orders, unchanged in the store, while
\* driver u2's list holds what u2 drives
C20_Witness ==
  /\ lst["u3"].pc = "idle" /\ lst["u2"].pc = "idle"
  /\ cache["u3"][1] = orders[1] /\ cache["u3"][2] = orders[2]
  /\ orders[1] # NoRow /\ orders[2] # NoRow /\ orders[2].driver_id = "u4"
  /\ cache["u2"][1] = orders[1] /\ cache["u2"][2] = NoRow

\* --------------------------------------------------------- catalog claims
\* the step in which the store runs the insert or update of a RestaurantContext
\* call of c
RestaurantWriteStep(c) == rop[c].pc = "idle" /\ rop'[c].pc = "written"

\* the step in which the store runs the insert, update or delete of a MenuContext
\* call of c
MenuWriteStep(c) == mop[c].pc = "idle" /\ mop'[c].pc = "written"

\* C12 (as claimed): a restaurant's stored rating changes only in the write of
\* updateRestaurantRating
C12_RatingChangedByAggregationOnly ==
  [][\A r \in RestaurantIds :
       restaurants'[r].rating # restaurants[r].rating =>
         \E c \in Users : RatingWriteStep(c) /\ rev[c].rid = r
    ]_vars

C18_StoredPricesPositive ==
  \A i \in MenuIds : menu_items[i] # NoItem => menu_items[i].price > 0

\* ------------------------------------------------------- validation claims
\* the step in which createRestaurant is called by c
CreateRestaurantCall(c) ==
  rop[c].pc = "idle" /\ rop'[c] # rop[c] /\ rop'[c].kind = "createRestaurant"

\* the step in which addMenuItem is called by c
AddMenuItemCall(c) ==
  mop[c].pc = "idle" /\ mop'[c] # mop[c] /\ mop'[c].kind = "addMenuItem"

\* a form value that is a number, or a text that denotes one, not below zero
NumberAtLeastZero(v) ==
  \/ v.t = "number" /\ v.n # NaN /\ v.n >= 0
  \/ v.t = "string" /\ NumericText(v.s) # NaN /\ NumericText(v.s) >= 0

\* a form value that is present and not empty
PresentNonEmpty(v) ==
  CASE v.t = "undefined" -> FALSE
    [] v.t = "string" -> v.s # ""
    [] v.t = "array" -> v.n > 0
    [] OTHER -> TRUE

\* C17 (as claimed): createRestaurant passes its validation, and sends the insert,
\* exactly when every required field is present and not empty and delivery fee and
\* minimum order are numbers not below zero
C17_ValidationAcceptsExactly ==
  [][\A c \in Users :
       CreateRestaurantCall(c) =>
         LET d == rop'[c].data
         IN  (rop'[c].pc = "written") <=>
               /\ \A i \in 1..Len(RestaurantRequired) :
                    PresentNonEmpty(d[RestaurantRequired[i]])
               /\ NumberAtLeastZero(d.delivery_fee)
               /\ NumberAtLeastZero(d.min_order)
    ]_vars

\* form values that are missing or empty, and values that are no number or a
\* number below zero
AbsentValues == {Undefined, Str("")}
BadNumbers == {Undefined, Str(""), Str("abc"), Str("-5"), Num(-5)}

\* restaurant data with a required field missing or empty or an invalid number
RestaurantFormBad(d) ==
  \/ \E f \in {"name", "description", "town", "address", "phone", "delivery_time"} :
       d[f] \in AbsentValues
  \/ d.categories \in {Undefined, Arr(0)}
  \/ d.delivery_fee \in BadNumbers
  \/ d.min_order \in BadNumbers

\* menu item data with a required field missing, empty or blank, or a price that
\* is no number or not above zero
MenuFormBad(d) ==
  \/ \E f \in {"restaurant_id", "name", "description", "category"} :
       d[f] \in AbsentValues \cup {Str(" ")}
  \/ d.price \in BadNumbers \cup {Str(" "), Str("0"), Num(0)}

\* order data without a restaurant, without items or with a blank address
OrderFormBad(d) ==
  d.restaurant_id = "" \/ d.items = 0 \/ Trim(d.delivery_address) = ""

\* the tables of the store
store == <<restaurants, menu_items, orders, reviews>>

WellFormedReview(row) ==
  /\ row.rating # NaN /\ row.rating >= 1 /\ row.rating <= 5
  /\ row.restaurant_id \in RestaurantIds
  /\ restaurants[row.restaurant_id] # NoRestaurant

\* the reviews stored for order o by customer u
ReviewsOfOrder(o, u) ==
  {i \in 1..Len(reviews) : reviews[i].order_id = o /\ reviews[i].customer_id = u}

\* C29: the store does not enforce one review per order: a createReview by the
\* customer of a delivered order is accepted although reviews of that order by that
\* customer are already stored, the earlier reviews stay stored, and the mean that
\* the rating recomputation then takes counts every stored review of the restaurant
C29_SecondReviewAccepted ==
  [][\A c \in Users :
       /\ ReviewInsertStep(c) =>
            \A d \in ReviewInputs :
              ( /\ ReviewsOfOrder(d.order_id, c) # {}
                /\ ReviewAllowed(c, ReviewInsertRow(d))
                /\ WellFormedReview(ReviewInsertRow(d))
                /\ createReviewInsert(c, d) )
              => /\ reviews' = Append(reviews, ReviewInsertRow(d))
                 /\ rev'[c].pc = "inserted"
       /\ ( /\ RatingFetchStep(c) /\ rev'[c].pc = "fetched"
            /\ \E o \in OrderIds, u \in Users : Cardinality(ReviewsOfOrder(o, u)) > 1 )
          => IsMeanOfStored(rev'[c].avg, rev[c].rid)
    ]_vars

\* C29 witness: two reviews of one delivered order by its customer are stored,
\* with ratings 5 and 3, and the rating written after the second is their mean 4
C29_Witness ==
  \E c \in Users, o \in OrderIds :
    /\ Len(reviews) = 2
    /\ ReviewsOfOrder(o, c) = {1, 2}
    /\ orders[o].status = "delivered" /\ orders[o].customer_id = c
    /\ {reviews[1].rating, reviews[2].rating} = {3, 5}
    /\ rev[c].pc = "done" /\ rev[c].call = "createReview"
    /\ restaurants[reviews[2].restaurant_id].rating = Four


\* the step in which the rating update of client c's createReview fails after its
\* insert was stored: the select of the ratings is answered with an error, or the
\* store does not apply the write
RatingFailureStep(c) ==
  /\ rev[c].call = "createReview"
  /\ \/ rev[c].pc = "inserted" /\ rev'[c].pc \notin {"inserted", "fetched"}
     \/ RatingWriteStep(c) /\ ~RestaurantsUpdateUsing(c, rev[c].rid)

\* the review that client c's running createReview inserted is stored
InsertedReviewStored(c) ==
  \E i \in 1..Len(reviews') :
    reviews'[i].customer_id = c /\ reviews'[i].restaurant_id = rev[c].rid

\* C23: when the rating fetch or the rating write of a createReview fails after
\* its insert succeeded, createReview returns the inserted review without raising,
\* the review stays stored and the restaurant's rating keeps its previous value
C23_RatingFailureSwallowed ==
  [][\A c \in Users :
       RatingFailureStep(c) =>
         /\ rev'[c].pc \in {"nowrite", "done"}
         /\ reviews' = reviews
         /\ InsertedReviewStored(c)
         /\ restaurants' = restaurants
    ]_vars

\* C23 (as claimed): the same, and the rating the restaurant keeps then differs
\* from the mean of the reviews stored for it
C23_RatingThenDiffersFromMean ==
  [][\A c \in Users :
       RatingFailureStep(c) =>
         /\ rev'[c].pc \in {"nowrite", "done"}
         /\ reviews' = reviews
         /\ InsertedReviewStored(c)
         /\ restaurants' = restaurants
         /\ ~IsMeanOfStored(restaurants'[rev[c].rid].rating, rev[c].rid)
    ]_vars

\* C23 witness: u1's createReview has returned after a failed select of the
\* ratings and u2's after a write the store did not apply; both reviews are
\* stored and the rating of r1 is still the default
C23_Witness ==
  /\ rev["u1"].pc = "nowrite" /\ rev["u1"].call = "createReview"
  /\ rev["u2"].pc = "done" /\ rev["u2"].call = "createReview"
  /\ Len(reviews) = 2
  /\ {reviews[1].customer_id, reviews[2].customer_id} = {"u1", "u2"}
  /\ restaurants["r1"].rating = DefaultRating


\* C30: an updateOrderStatus called without a driver id leaves the driver_id of
\* every stored order and of every order in the caller's cached list as it was,
\* and no step sets a stored driver_id that names a user back to null: it keeps
\* its value or is replaced by another user's id
C30_DriverNeverCleared ==
  [][/\ \A id \in OrderIds :
          (orders[id] # NoRow /\ orders[id].driver_id # NoUser)
            => (orders'[id] # NoRow /\ orders'[id].driver_id \in Users)
     /\ \A c \in Users :
          /\ ( /\ \E id \in OrderIds : UpdateRequestStep(c, id)
               /\ upd'[c].kind = "update" /\ upd'[c].driver = NoUser )
             => \A i \in OrderIds :
                  orders[i] # NoRow =>
                    (orders'[i] # NoRow /\ orders'[i].driver_id = orders[i].driver_id)
          /\ (UpdateReturn(c) /\ upd[c].driver = NoUser)
             => \A i \in OrderIds :
                  cache[c][i] # NoRow =>
                    (cache'[c][i] # NoRow /\ cache'[c][i].driver_id = cache[c][i].driver_id)
    ]_vars

\* C30 witness: driver u2 loaded its deliveries and set order 1 delivered without
\* a driver id; the store and u2's list hold the new status and still name u2
C30_Witness ==
  /\ upd["u2"].pc = "idle"
  /\ orders[1].status = "delivered" /\ orders[1].driver_id = "u2"
  /\ cache["u2"][1] # NoRow
  /\ cache["u2"][1].status = "delivered" /\ cache["u2"][1].driver_id = "u2"


\* C24 (as claimed): in a client that has no order operation in flight, while no
\* other client has written to the store, every order of the cached list has the
\* status and the driver_id of the stored order with its id
C24_CacheAgreesWithStore ==
  \A c \in SoloClients :
    (upd[c].pc = "idle" /\ lst[c].pc = "idle") =>
      \A id \in OrderIds :
        cache[c][id] # NoRow =>
          /\ orders[id] # NoRow
          /\ cache[c][id].status = orders[id].status
          /\ cache[c][id].driver_id = orders[id].driver_id


\* the steps in which a fetchMenuItems and a fetchRestaurants call of c return
MenuFetchReturn(c) ==
  mop[c].pc = "fetching" /\ mop[c].kind = "fetchMenuItems" /\ mop'[c].pc = "idle"

RestaurantsFetchReturn(c) ==
  /\ rop[c].pc = "refetching" /\ rop[c].kind = "fetchRestaurants"
  /\ rop[c].all = "sent" /\ rop'[c].pc = "idle"

RegisterStep(b) == aop[b].register.pc = "idle" /\ aop'[b].register.pc = "sent"
RegisterReturn(b) == aop[b].register.pc = "sent" /\ aop'[b].register.pc = "idle"

StoredUsers == {u \in Users : users[u] # NoAccount}

\* C22: no two stored users share an email: a register with an email that is
\* already stored is rejected and stores no user, and AuthContext.register then
\* returns false and leaves the current user and the persisted session as they were
C22_EmailsUnique ==
  [][/\ \A u, v \in Users :
          (u # v /\ users'[u] # NoAccount /\ users'[v] # NoAccount)
            => users'[u].email # users'[v].email
     /\ \A b \in Browsers :
          /\ RegisterStep(b) =>
               \A d \in RegisterInputs :
                 (UsersByEmail(d.email) # {} /\ register(b, d))
                   => (users' = users /\ aop'[b].register.res # Ok)
          /\ (RegisterReturn(b) /\ aop[b].register.res # Ok)
               => /\ aop'[b].register.ret = "false"
                  /\ session'[b] = session[b]
                  /\ auth'[b] = auth[b]
    ]_vars

\* C22 witness: b1 registered b@x and is logged in with the new account, b2's
\* register of the same email was refused as a duplicate, and the table holds
\* the two accounts
C22_Witness ==
  /\ aop["b1"].register.ret = "true"
  /\ auth["b1"].user.email = "b@x" /\ session["b1"].email = "b@x"
  /\ aop["b2"].register.pc = "sent" /\ aop["b2"].register.res = "duplicate key"
  /\ Cardinality(StoredUsers) = 2


\* the steps in which a login call of browser b is sent and in which it returns,
\* the step of the startup effect and the step in which its verify returns
LoginStep(b) == aop[b].login.pc = "idle" /\ aop'[b].login.pc = "sent"
LoginReturn(b) == aop[b].login.pc = "sent" /\ aop'[b].login.pc = "idle"
StartupStep(b) == ~aop[b].started /\ aop'[b].started
VerifyReturn(b) == aop[b].verify.pc = "sent" /\ aop'[b].verify.pc = "idle"

\* the password p is the one of the account stored for email e
Matches(e, p) == \E u \in UsersByEmail(e) : Compare(p, users[u].password_hash)

\* C28: a login with an unknown email and a login with a known email and a wrong
\* password end with the same error 'Invalid credentials'; AuthContext.login then
\* returns false and leaves the current user and the persisted session as they
\* were; a login succeeds only with the password of the stored account, and only
\* then are both set, to that account
C28_LoginFailuresAlike ==
  [][\A b \in Browsers :
       /\ LoginStep(b) =>
            \A e \in Emails, p \in Passwords :
              login(b, e, p) =>
                /\ (~Matches(e, p) /\ aop'[b].login.res # StoreError)
                     => aop'[b].login.res = "Invalid credentials"
                /\ aop'[b].login.res = Ok
                     => /\ Matches(e, p)
                        /\ aop'[b].login.user.email = e
                        /\ aop'[b].login.user.id \in UsersByEmail(e)
                /\ UNCHANGED <<users, session, auth>>
       /\ (LoginReturn(b) /\ aop[b].login.res # Ok)
            => /\ aop'[b].login.ret = "false"
               /\ session'[b] = session[b]
               /\ auth'[b] = auth[b]
       /\ (LoginReturn(b) /\ aop[b].login.res = Ok)
            => /\ aop'[b].login.ret = "true"
               /\ session'[b] = aop[b].login.user
               /\ auth'[b].user = aop[b].login.user
    ]_vars

\* C28 witness: a login of b1 returned true and b1 holds u1 as user and as
\* session, and a further login of b1 has been answered 'Invalid credentials'
C28_Witness ==
  /\ aop["b1"].login.ret = "true"
  /\ auth["b1"].user.id = "u1" /\ session["b1"] = auth["b1"].user
  /\ aop["b1"].login.pc = "sent" /\ aop["b1"].login.res = "Invalid credentials"

\* C27: the startup effect of a browser without a persisted session sends no
\* request and sets loading false; with a session it sends verify and loading
\* stays true until the response: a verify that succeeds sets the current user to
\* the verified user, one that fails removes the session and leaves the current
\* user as it was, which is null when no handler has been called; either way
\* loading becomes false; the user is set by nothing but a successful verify,
\* login or register
C27_StartupVerify ==
  [][\A b \in Browsers :
       /\ StartupStep(b) =>
            /\ UNCHANGED <<users, session>>
            /\ auth'[b].user = Nobody
            /\ IF session[b] = Nobody
               THEN aop'[b].verify.pc = "idle" /\ ~auth'[b].loading
               ELSE aop'[b].verify.pc = "sent" /\ auth'[b].loading
       /\ (VerifyReturn(b) /\ aop[b].verify.res = Ok)
            => /\ auth'[b].user = aop[b].verify.user
               /\ auth'[b].user.id \in StoredUsers
               /\ session'[b] = session[b]
       /\ (VerifyReturn(b) /\ aop[b].verify.res # Ok)
            => /\ session'[b] = Nobody
               /\ auth'[b].user = auth[b].user
               /\ calls = 0 => auth'[b].user = Nobody
       /\ (auth[b].user = Nobody /\ auth'[b].user # Nobody)
            => \/ VerifyReturn(b) /\ aop[b].verify.res = Ok
               \/ LoginReturn(b) /\ aop[b].login.res = Ok
               \/ RegisterReturn(b) /\ aop[b].register.res = Ok
       /\ auth'[b].loading <=> (~aop'[b].started \/ aop'[b].verify.pc = "sent")
    ]_vars

\* C27 witness: before any handler call, b1's verify of the stored session of u1
\* has succeeded and set the user, and b2, started without a session, has no
\* user; neither is loading
C27_Witness ==
  /\ calls = 0
  /\ aop["b1"].started /\ aop["b1"].verify.pc = "idle"
  /\ auth["b1"].user.id = "u1"
  /\ session["b1"].id = "u1" /\ ~auth["b1"].loading
  /\ aop["b2"].started /\ auth["b2"].user = Nobody /\ session["b2"] = Nobody
  /\ ~auth["b2"].loading

\* C25 (as claimed): whenever the current user of a browser is not null, a
\* persisted session exists and holds the same user id
C25_UserHasSession ==
  \A b \in Browsers :
    auth[b].user # Nobody => (session[b] # Nobody /\ session[b].id = auth[b].user.id)

\* C26 (as claimed): once a logout has left a started browser without a current
\* user and without a persisted session, both stay so until a login or a register
\* succeeds
C26_LoggedOutUntilLogin ==
  [][\A b \in Browsers :
       /\ (aop[b].started /\ auth[b].user # auth'[b].user /\ auth'[b].user = Nobody)
            => session'[b] = Nobody
       /\ ( /\ aop[b].started
            /\ auth[b].user = Nobody /\ session[b] = Nobody
            /\ (auth'[b].user # Nobody \/ session'[b] # Nobody) )
          => \/ LoginReturn(b) /\ aop[b].login.res = Ok
             \/ RegisterReturn(b) /\ aop[b].register.res = Ok
    ]_vars


\* C32: no step changes the role of a stored user or removes the user: a role is
\* stored only by the insert of a register, as the role the register was called
\* with, and a register with a role outside customer, owner, agent, admin,
\* manager, driver is rejected and stores no user
C32_RoleFixedAtRegistration ==
  [][/\ \A u \in Users :
          /\ users[u] # NoAccount
               => (users'[u] # NoAccount /\ users'[u].role = users[u].role)
          /\ (users[u] = NoAccount /\ users'[u] # NoAccount)
               => /\ users'[u].role \in UserRoles
                  /\ \E b \in Browsers, d \in RegisterInputs :
                       RegisterStep(b) /\ register(b, d) /\ users'[u].role = d.role
     /\ \A b \in Browsers :
          RegisterStep(b) =>
            \A d \in RegisterInputs :
              (d.role \notin UserRoles /\ register(b, d))
                => (users' = users /\ aop'[b].register.res # Ok)
    ]_vars

\* C32 witness: b2's register of b@x with the role superuser was refused for the
\* role, b1 then registered b@x as a customer, and after the calls the table holds
\* two accounts, both customers
C32_Witness ==
  /\ aop["b2"].register.pc = "sent" /\ aop["b2"].register.res = "violates constraint"
  /\ aop["b1"].register.ret = "true" /\ auth["b1"].user.role = "customer"
  /\ Cardinality(StoredUsers) = 2
  /\ \A u \in StoredUsers : users[u].role = "customer"


\* an operation of client c's RestaurantContext, or of its OrderContext list
\* handlers, is in flight
RestaurantOpPending(c) == rop[c].pc # "idle"
OrderOpPending(c) == lst[c].pc # "idle"

\* C31 (as claimed, for a call that does not respond): as long as an operation
\* has not completed, a remote call of it still unanswered, the loading flag it
\* set to true stays true
C31_PendingKeepsLoading ==
  [][\A c \in PendingClients :
       /\ (RestaurantOpPending(c) /\ rctx[c].loading /\ RestaurantOpPending(c)')
            => rctx'[c].loading
       /\ (OrderOpPending(c) /\ loading[c] /\ OrderOpPending(c)')
            => loading'[c]
    ]_vars

\* C31, every call responding: each operation in flight comes to its end
C31_RespondedCallsComplete ==
  \A c \in PendingClients :
    /\ RestaurantOpPending(c) ~> ~RestaurantOpPending(c)
    /\ OrderOpPending(c) ~> ~OrderOpPending(c)

\* C31, no operation in flight: the container's loading flag is false
C31_IdleNotLoading ==
  \A c \in PendingClients :
    /\ ~RestaurantOpPending(c) => ~rctx[c].loading
    /\ ~OrderOpPending(c) => ~loading[c]

=============================================================================
